---- MODULE Spec2Model ----
(***************************************************************************)
(* Model of the genus query core: typed field descriptors, the condition   *)
(* algebra, the query Builder and its SQL rendering through a Dialect.     *)
(*                                                                         *)
(* SQL text is kept as a sequence of string fragments; Str(frags) is the   *)
(* text itself (the fragments concatenated).  Every placeholder the        *)
(* dialect emits is one fragment, so the placeholders of a text are the    *)
(* fragments of it that a Dialect.Placeholder call produced.               *)
(*                                                                         *)
(* A Go interface{} value is a record [t, s, elems]: t its dynamic type,   *)
(* s the literal of a scalar, elems the elements of a slice.               *)
(*                                                                         *)
(* Around the core: the row scanner, core.Optional, DB.WithTx, the         *)
(* migrate.Migrator and the codegen.Generator, each with a specification   *)
(* of its own over the same variables.                                     *)
(***************************************************************************)
EXTENDS Integers, Sequences, FiniteSets, TLC

VARIABLES
    b,        \* the Builder object: every *Builder the program holds points to it
    last,     \* what the most recent call on b returned / sent to the Executor
    rin,      \* input of the function a pure-function specification applies
    rout,     \* their output
    pc,       \* concurrent derivation: each thread's position inside Where
    loaded,   \* concurrent derivation: the b.conditions each thread has read
    snap,     \* concurrent derivation: base's conditions before the threads ran
    opt,      \* an Optional[int] variable and the last call made on it
    tx,       \* the rows of a table, the transactions left open, the last WithTx
    mig,      \* a Migrator, the database it migrates, and its last call
    gen       \* the files on disk and the last GenerateFromPath call

vars == <<b, last, rin, rout, pc, loaded, snap, opt, tx, mig, gen>>

-----------------------------------------------------------------------------
(* Bounds of the model *)

\* Where and OrderBy calls explored on one builder (conditions + order specs)
MaxClauses == 2
\* number of values passed to In / NotIn
MaxVals == 2
\* largest placeholder position a single condition is rendered at
MaxArgIndex == 3
\* rows the Executor returns at most
MaxRows == 2
\* columns of a result row handed to scanStruct
MaxCols == 3

-----------------------------------------------------------------------------
(* Operators and values: query/condition.go *)

OpEq == "="
OpNe == "!="
OpGt == ">"
OpGte == ">="
OpLt == "<"
OpLte == "<="
OpLike == "LIKE"
OpNotLike == "NOT LIKE"
OpIn == "IN"
OpNotIn == "NOT IN"
OpBetween == "BETWEEN"
OpIsNull == "IS NULL"
OpIsNotNull == "IS NOT NULL"

LogicalAnd == "AND"
LogicalOr == "OR"

\* a scalar held in an interface{}: dynamic type t, literal s
Scalar(t, s) == [t |-> t, s |-> s, elems |-> <<>>]

\* a slice held in an interface{}: dynamic type t ("[]int", ...), elements xs
Slice(t, xs) == [t |-> t, s |-> "", elems |-> xs]

\* the nil interface{} (Condition.Value of IsNull / IsNotNull is left unset)
Nil == [t |-> "nil", s |-> "", elems |-> <<>>]

\* Condition{Field, Operator, Value}
Condition(field, op, value) ==
    [type |-> "Condition", Field |-> field, Operator |-> op, Value |-> value,
     Conditions |-> <<>>]

\* ConditionGroup{Conditions, Operator}
ConditionGroup(conds, op) ==
    [type |-> "ConditionGroup", Field |-> "", Operator |-> op, Value |-> Nil,
     Conditions |-> conds]

\* And(conditions ...Condition)
And(conditions) == ConditionGroup(conditions, LogicalAnd)

\* Or(conditions ...Condition)
Or(conditions) == ConditionGroup(conditions, LogicalOr)

\* Not were it to swap in one direction only
Not_oneWay(condition) ==
    CASE condition.Operator = OpEq -> [condition EXCEPT !.Operator = OpNe]
      [] condition.Operator = OpIsNull -> [condition EXCEPT !.Operator = OpIsNotNull]
      [] condition.Operator = OpIn -> [condition EXCEPT !.Operator = OpNotIn]
      [] OTHER -> condition

\* Not(condition): the parameter is a copy of the caller's Condition; its
\* operator is swapped and the copy returned
Not(condition) ==
    CASE condition.Operator = OpEq -> [condition EXCEPT !.Operator = OpNe]
      [] condition.Operator = OpNe -> [condition EXCEPT !.Operator = OpEq]
      [] condition.Operator = OpIsNull -> [condition EXCEPT !.Operator = OpIsNotNull]
      [] condition.Operator = OpIsNotNull -> [condition EXCEPT !.Operator = OpIsNull]
      [] condition.Operator = OpIn -> [condition EXCEPT !.Operator = OpNotIn]
      [] condition.Operator = OpNotIn -> [condition EXCEPT !.Operator = OpIn]
      [] OTHER -> condition

-----------------------------------------------------------------------------
(* Field descriptors: query/field.go.  ft is the descriptor type. *)

FieldTypes ==
    {"StringField", "IntField", "Int64Field", "BoolField",
     "OptionalStringField", "OptionalIntField", "OptionalInt64Field",
     "OptionalBoolField", "OptionalFloat64Field"}

\* descriptor types that offer Gt/Gte/Lt/Lte/Between
OrderedFieldTypes ==
    {"IntField", "Int64Field", "OptionalIntField", "OptionalInt64Field",
     "OptionalFloat64Field"}

\* the Go type of the values a descriptor's methods take
ElemType(ft) ==
    CASE ft \in {"StringField", "OptionalStringField"} -> "string"
      [] ft \in {"IntField", "OptionalIntField"} -> "int"
      [] ft \in {"Int64Field", "OptionalInt64Field"} -> "int64"
      [] ft \in {"BoolField", "OptionalBoolField"} -> "bool"
      [] ft = "OptionalFloat64Field" -> "float64"

\* the literals of each Go type the model draws operands from
Literals(t) ==
    CASE t = "string" -> {"'a'", "'b'"}
      [] t = "int" -> {"10", "20"}
      [] t = "int64" -> {"100", "200"}
      [] t = "bool" -> {"true", "false"}
      [] t = "float64" -> {"1.5", "2.5"}

\* values ...T of a variadic call: the slice []T of its arguments
Variadic(ft, lits) ==
    Slice("[]" \o ElemType(ft),
          [i \in 1..Len(lits) |-> Scalar(ElemType(ft), lits[i])])

\* f.Eq(value) .. f.Lte(value), f.Like(pattern): one operand of the field's type
Compare(ft, column, op, lit) == Condition(column, op, Scalar(ElemType(ft), lit))

\* f.In(values...)
In(ft, column, lits) == Condition(column, OpIn, Variadic(ft, lits))

\* f.NotIn(values...)
NotIn(ft, column, lits) == Condition(column, OpNotIn, Variadic(ft, lits))

\* f.Between(start, end): Value is []T{start, end}
Between(ft, column, start, end) ==
    Condition(column, OpBetween, Variadic(ft, <<start, end>>))

\* f.IsNull()
IsNull(ft, column) == Condition(column, OpIsNull, Nil)

\* f.IsNotNull()
IsNotNull(ft, column) == Condition(column, OpIsNotNull, Nil)

-----------------------------------------------------------------------------
(* Dialects: dialects/mysql (the file also holds postgres), dialects/sqlite *)

Dialects == {"postgres", "mysql", "sqlite"}

\* mysql.Dialect.Placeholder were it to number its placeholders
Placeholder_mysql_numbered(n) == "$" \o ToString(n)

\* mysql.Dialect.Placeholder: "?" whatever n is
Placeholder_mysql(n) == "?"

\* sqlite.Dialect.Placeholder: "?" whatever n is
Placeholder_sqlite(n) == "?"

\* postgres.Dialect.Placeholder: fmt.Sprintf("$%d", n)
Placeholder_postgres(n) == "$" \o ToString(n)

\* core.Dialect.Placeholder, dispatched on the dialect the builder holds
Placeholder(d, n) ==
    CASE d = "postgres" -> Placeholder_postgres(n)
      [] d = "mysql" -> Placeholder_mysql(n)
      [] d = "sqlite" -> Placeholder_sqlite(n)

\* the grave accent MySQL quotes identifiers with; a TLA+ string cannot hold
\* that character, so the model writes it as an apostrophe
Backtick == "'"

\* core.Dialect.QuoteIdentifier: backticks for mysql, double quotes otherwise
QuoteIdentifier(d, name) ==
    CASE d = "mysql" -> Backtick \o name \o Backtick
      [] d = "postgres" -> "\"" \o name \o "\""
      [] d = "sqlite" -> "\"" \o name \o "\""

-----------------------------------------------------------------------------
(* Text helpers *)

RECURSIVE Str(_)
\* the text a fragment sequence stands for
Str(frags) == IF frags = <<>> THEN "" ELSE Head(frags) \o Str(Tail(frags))

RECURSIVE Join(_, _)
\* strings.Join(parts, sep): parts is a sequence of texts (fragment sequences)
Join(parts, sep) ==
    IF parts = <<>> THEN <<>>
    ELSE IF Len(parts) = 1 THEN parts[1]
    ELSE parts[1] \o <<sep>> \o Join(Tail(parts), sep)

-----------------------------------------------------------------------------
(* Rendering: query/builder.go *)

\* interfaceSlice were it to drop a value equal to the one before it
interfaceSlice_dropRepeats(value) ==
    IF value.t \in {"[]string", "[]int", "[]int64", "[]bool", "[]interface{}"}
    THEN SubSeq(value.elems, 1, 1)
         \o SelectSeq(value.elems, LAMBDA e : e # value.elems[1])
    ELSE <<value>>

\* interfaceSlice: []string, []int, []int64, []bool are boxed element by
\* element, []interface{} is returned as is, anything else (a scalar, and any
\* other slice type, such as []float64) becomes a one-element slice holding it
interfaceSlice(value) ==
    CASE value.t \in {"[]string", "[]int", "[]int64", "[]bool"} -> value.elems
      [] value.t = "[]interface{}" -> value.elems
      [] OTHER -> <<value>>

\* an IN list whose placeholders all take the position of the first
InPlaceholders_sameIndex(d, n, argIndex) ==
    [i \in 1..n |-> <<Placeholder(d, argIndex)>>]

\* the placeholders of an IN list: one Placeholder call per value
InPlaceholders(d, n, argIndex) ==
    [i \in 1..n |-> <<Placeholder(d, argIndex + i - 1)>>]

\* buildCondition(cond, argIndex): [sql, args, argIndex after the call]
buildCondition(d, cond, argIndex) ==
    CASE cond.Operator = OpIsNull ->
           [sql |-> <<cond.Field, " IS NULL">>, args |-> <<>>, argIndex |-> argIndex]
      [] cond.Operator = OpIsNotNull ->
           [sql |-> <<cond.Field, " IS NOT NULL">>, args |-> <<>>,
            argIndex |-> argIndex]
      [] cond.Operator \in {OpIn, OpNotIn} ->
           LET values == interfaceSlice(cond.Value)
               op == IF cond.Operator = OpNotIn THEN "NOT IN" ELSE "IN"
           IN  [sql |-> <<cond.Field, " ", op, " (">>
                        \o Join(InPlaceholders(d, Len(values), argIndex), ", ")
                        \o <<")">>,
                args |-> values,
                argIndex |-> argIndex + Len(values)]
      [] cond.Operator = OpBetween ->
           LET values == interfaceSlice(cond.Value)
           IN  IF Len(values) # 2
               THEN [sql |-> <<>>, args |-> <<>>, argIndex |-> argIndex]
               ELSE [sql |-> <<cond.Field, " BETWEEN ", Placeholder(d, argIndex),
                               " AND ", Placeholder(d, argIndex + 1)>>,
                     args |-> <<values[1], values[2]>>,
                     argIndex |-> argIndex + 2]
      [] OTHER ->
           [sql |-> <<cond.Field, " ", cond.Operator, " ", Placeholder(d, argIndex)>>,
            args |-> <<cond.Value>>,
            argIndex |-> argIndex + 1]

RECURSIVE buildParts(_, _, _)
RECURSIVE buildConditionGroup(_, _, _)

\* the loop shared by buildWhereClause and buildConditionGroup: each element
\* is rendered with the shared argIndex; a group's text is parenthesized; an
\* element that is neither a Condition nor a ConditionGroup is skipped
buildParts(d, conditions, argIndex) ==
    IF conditions = <<>>
    THEN [parts |-> <<>>, args |-> <<>>, argIndex |-> argIndex]
    ELSE LET c == Head(conditions)
             r == CASE c.type = "Condition" ->
                         LET x == buildCondition(d, c, argIndex)
                         IN  [parts |-> <<x.sql>>, args |-> x.args,
                              argIndex |-> x.argIndex]
                    [] c.type = "ConditionGroup" ->
                         LET x == buildConditionGroup(d, c, argIndex)
                         IN  [parts |-> << <<"(">> \o x.sql \o <<")">> >>,
                              args |-> x.args, argIndex |-> x.argIndex]
                    [] OTHER ->
                         [parts |-> <<>>, args |-> <<>>, argIndex |-> argIndex]
             rest == buildParts(d, Tail(conditions), r.argIndex)
         IN  [parts |-> r.parts \o rest.parts, args |-> r.args \o rest.args,
              argIndex |-> rest.argIndex]

\* buildConditionGroup were it to ignore the group's operator
buildConditionGroup_alwaysAnd(d, group, argIndex) ==
    LET r == buildParts(d, group.Conditions, argIndex)
    IN  [sql |-> Join(r.parts, " AND "), args |-> r.args, argIndex |-> r.argIndex]

\* buildConditionGroup(group, argIndex): children joined by " AND " / " OR "
buildConditionGroup(d, group, argIndex) ==
    LET r == buildParts(d, group.Conditions, argIndex)
        operator == IF group.Operator = LogicalOr THEN " OR " ELSE " AND "
    IN  [sql |-> Join(r.parts, operator), args |-> r.args, argIndex |-> r.argIndex]

\* buildWhereClause were it to put the latest condition first
buildWhereClause_latestFirst(d, conditions) ==
    IF Len(conditions) = 0
    THEN [sql |-> <<>>, args |-> <<>>]
    ELSE LET rev == [i \in 1..Len(conditions) |->
                       conditions[Len(conditions) + 1 - i]]
             r == buildParts(d, rev, 1)
         IN  [sql |-> Join(r.parts, " AND "), args |-> r.args]

\* buildWhereClause(conditions): argIndex starts at 1, parts joined by " AND "
buildWhereClause(d, conditions) ==
    IF Len(conditions) = 0
    THEN [sql |-> <<>>, args |-> <<>>]
    ELSE LET r == buildParts(d, conditions, 1)
         IN  [sql |-> Join(r.parts, " AND "), args |-> r.args]

\* buildSelectQuery were it to append OFFSET and LIMIT before ORDER BY
buildSelectQuery_orderLast(bd) ==
    LET where == buildWhereClause(bd.dialect, bd.conditions)
        orderParts == [i \in 1..Len(bd.orderBy) |->
                         IF bd.orderBy[i].Desc
                         THEN <<bd.orderBy[i].Column, " DESC">>
                         ELSE <<bd.orderBy[i].Column, " ASC">>]
    IN  [query |->
             <<"SELECT ">>
             \o (IF Len(bd.selectCols) > 0
                 THEN Join([i \in 1..Len(bd.selectCols) |-> <<bd.selectCols[i]>>], ", ")
                 ELSE <<"*">>)
             \o <<" FROM ", QuoteIdentifier(bd.dialect, bd.tableName)>>
             \o (IF Len(bd.conditions) > 0 THEN <<" WHERE ">> \o where.sql ELSE <<>>)
             \o (IF bd.offset # <<>>
                 THEN <<" OFFSET ", ToString(bd.offset[1])>> ELSE <<>>)
             \o (IF bd.limit # <<>> THEN <<" LIMIT ", ToString(bd.limit[1])>> ELSE <<>>)
             \o (IF Len(bd.orderBy) > 0
                 THEN <<" ORDER BY ">> \o Join(orderParts, ", ") ELSE <<>>),
         args |-> IF Len(bd.conditions) > 0 THEN where.args ELSE <<>>]

\* buildSelectQuery(): [query, args]
buildSelectQuery(bd) ==
    LET where == buildWhereClause(bd.dialect, bd.conditions)
        orderParts == [i \in 1..Len(bd.orderBy) |->
                         IF bd.orderBy[i].Desc
                         THEN <<bd.orderBy[i].Column, " DESC">>
                         ELSE <<bd.orderBy[i].Column, " ASC">>]
    IN  [query |->
             <<"SELECT ">>
             \o (IF Len(bd.selectCols) > 0
                 THEN Join([i \in 1..Len(bd.selectCols) |-> <<bd.selectCols[i]>>], ", ")
                 ELSE <<"*">>)
             \o <<" FROM ", QuoteIdentifier(bd.dialect, bd.tableName)>>
             \o (IF Len(bd.conditions) > 0 THEN <<" WHERE ">> \o where.sql ELSE <<>>)
             \o (IF Len(bd.orderBy) > 0
                 THEN <<" ORDER BY ">> \o Join(orderParts, ", ") ELSE <<>>)
             \o (IF bd.limit # <<>> THEN <<" LIMIT ", ToString(bd.limit[1])>> ELSE <<>>)
             \o (IF bd.offset # <<>>
                 THEN <<" OFFSET ", ToString(bd.offset[1])>> ELSE <<>>),
         args |-> IF Len(bd.conditions) > 0 THEN where.args ELSE <<>>]

\* buildCountQuery were it to render only the first condition
buildCountQuery_firstOnly(bd) ==
    LET where == buildWhereClause(bd.dialect, SubSeq(bd.conditions, 1, 1))
    IN  [query |->
             <<"SELECT COUNT(*) FROM ", QuoteIdentifier(bd.dialect, bd.tableName)>>
             \o (IF Len(bd.conditions) > 0 THEN <<" WHERE ">> \o where.sql ELSE <<>>),
         args |-> IF Len(bd.conditions) > 0 THEN where.args ELSE <<>>]

\* buildCountQuery(): [query, args]
buildCountQuery(bd) ==
    LET where == buildWhereClause(bd.dialect, bd.conditions)
    IN  [query |->
             <<"SELECT COUNT(*) FROM ", QuoteIdentifier(bd.dialect, bd.tableName)>>
             \o (IF Len(bd.conditions) > 0 THEN <<" WHERE ">> \o where.sql ELSE <<>>),
         args |-> IF Len(bd.conditions) > 0 THEN where.args ELSE <<>>]

-----------------------------------------------------------------------------
(* The Builder: query/builder.go *)

\* NewBuilder(executor, dialect, logger, tableName): the slices are nil, the
\* limit and offset pointers are nil (<<>>; <<n>> is a pointer to n)
NewBuilder(dialect, tableName) ==
    [dialect |-> dialect, tableName |-> tableName, conditions |-> <<>>,
     orderBy |-> <<>>, limit |-> <<>>, offset |-> <<>>, selectCols |-> <<>>]

\* OrderBy{Column, Desc}
OrderBy(column, desc) == [Column |-> column, Desc |-> desc]

-----------------------------------------------------------------------------
(* The collaborators: what the Executor returns to one call *)

\* outcomes of Executor.QueryContext and of iterating its rows: the call
\* fails ("execErr"); or nrows rows scan and then a row fails to scan
\* ("scanErr"), rows.Err() reports an error ("rowsErr"), or the rows end ("ok")
QueryOutcomes ==
    {[kind |-> "execErr", nrows |-> 0]}
    \cup {[kind |-> k, nrows |-> n] :
            k \in {"scanErr", "rowsErr", "ok"}, n \in 0..MaxRows}

\* outcomes of Executor.QueryRowContext(...).Scan(&count)
CountOutcomes ==
    {[err |-> TRUE, count |-> 0]}
    \cup {[err |-> FALSE, count |-> c] : c \in 0..MaxRows}

\* no call has returned yet
Idle ==
    [op |-> "none", sent |-> <<>>, err |-> "", results |-> <<>>, isNil |-> TRUE,
     value |-> 0, logQuery |-> 0, logError |-> 0,
     outcome |-> [kind |-> "none", nrows |-> 0]]

-----------------------------------------------------------------------------
(* Terminal calls: what a call returns, sends to the Executor and logs.     *)
(* Rows are numbered 1..nrows; 0 is the zero value of T and of int64.       *)
(* outcome records how the Executor behaved during the call.                *)

\* b.Find(ctx) were it to return the rows scanned before a failure
FindResult_partial(q, o) ==
    [op |-> "Find", sent |-> <<[query |-> q.query, args |-> q.args]>>,
     err |-> IF o.kind = "ok" THEN "" ELSE "failed",
     results |-> [i \in 1..o.nrows |-> i], isNil |-> (o.nrows = 0), value |-> 0,
     logQuery |-> IF o.kind = "ok" THEN 1 ELSE 0,
     logError |-> IF o.kind = "execErr" THEN 1 ELSE 0, outcome |-> o]

\* b.Find(ctx) when buildSelectQuery returned q and the Executor behaves as o
FindResult(q, o) ==
    LET call == <<[query |-> q.query, args |-> q.args]>>
        failed(msg, logged) ==
            [op |-> "Find", sent |-> call, err |-> msg, results |-> <<>>,
             isNil |-> TRUE, value |-> 0, logQuery |-> 0, logError |-> logged,
             outcome |-> o]
    IN  CASE o.kind = "execErr" -> failed("failed to execute query", 1)
          [] o.kind = "scanErr" -> failed("failed to scan row", 0)
          [] o.kind = "rowsErr" -> failed("rows iteration error", 0)
          [] o.kind = "ok" ->
               [op |-> "Find", sent |-> call, err |-> "",
                results |-> [i \in 1..o.nrows |-> i],
                isNil |-> (o.nrows = 0), value |-> 0, logQuery |-> 1, logError |-> 0,
                outcome |-> o]

\* b.First(ctx) were it to return the zero value as a success on no rows
FirstResult_zeroOnEmpty(found) ==
    IF found.err # "" \/ Len(found.results) = 0
    THEN [found EXCEPT !.op = "First"]
    ELSE [found EXCEPT !.op = "First", !.value = found.results[1],
                       !.results = <<>>, !.isNil = TRUE]

\* b.First(ctx), after its b.Limit(1), from what its b.Find(ctx) returned
FirstResult(found) ==
    IF found.err # ""
    THEN [found EXCEPT !.op = "First"]
    ELSE IF Len(found.results) = 0
    THEN [found EXCEPT !.op = "First", !.err = "no rows found",
                       !.results = <<>>, !.isNil = TRUE]
    ELSE [found EXCEPT !.op = "First", !.value = found.results[1],
                       !.results = <<>>, !.isNil = TRUE]

\* b.Count(ctx) when buildCountQuery returned q and the Executor behaves as o
CountResult(q, o) ==
    LET call == <<[query |-> q.query, args |-> q.args]>>
    IN  IF o.err
        THEN [op |-> "Count", sent |-> call, err |-> "failed to count",
              results |-> <<>>, isNil |-> TRUE, value |-> 0,
              logQuery |-> 0, logError |-> 1,
              outcome |-> [kind |-> "scanErr", nrows |-> 0]]
        ELSE [op |-> "Count", sent |-> call, err |-> "", results |-> <<>>,
              isNil |-> TRUE, value |-> o.count, logQuery |-> 1, logError |-> 0,
              outcome |-> [kind |-> "ok", nrows |-> 1]]

-----------------------------------------------------------------------------
(* Optional[T], T = int: core Optional.  An Optional is [value, valid].  A  *)
(* driver value or a JSON text is [t, v, s]: t its Go type ("json" for a     *)
(* JSON text), v the number it holds, s the text it holds.                  *)

\* the ints the model draws from
OptInts == {0, 5, 7}

\* Some(value)
Some(value) == [value |-> value, valid |-> TRUE]

\* None[T](): value is the zero value of T
None == [value |-> 0, valid |-> FALSE]

\* FromPtr(ptr): <<>> is the nil pointer, <<n>> a pointer to n
FromPtr(ptr) == IF ptr = <<>> THEN None ELSE Some(ptr[1])

\* o.GetOrZero(): returns o.value
GetOrZero(o) == o.value

DriverNil == [t |-> "nil", v |-> 0, s |-> ""]
DriverInt(t, n) == [t |-> t, v |-> n, s |-> ""]
DriverText(t, text) == [t |-> t, v |-> 0, s |-> text]
JSONText(text) == [t |-> "json", v |-> 0, s |-> text]

\* strconv / fmt.Sscanf("%d") / json number decoding of a text: the int it
\* writes, or no int
ParseInt(text) ==
    IF \E n \in OptInts : ToString(n) = text
    THEN <<CHOOSE n \in OptInts : ToString(n) = text>>
    ELSE <<>>

\* convertToInt(value): <<n>>, or <<>> for an error
convertToInt(value) ==
    CASE value.t \in {"int", "int64", "int32"} -> <<value.v>>
      [] value.t = "[]byte" -> ParseInt(value.s)
      [] OTHER -> <<>>

\* o.Scan(value): [o after the call, err]
Scan(o, value) ==
    IF value.t = "nil"
    THEN [o |-> [o EXCEPT !.valid = FALSE], err |-> FALSE]
    ELSE IF value.t = "int"
    THEN [o |-> [value |-> value.v, valid |-> TRUE], err |-> FALSE]
    ELSE LET i == convertToInt(value)
         IN  IF i = <<>>
             THEN [o |-> [o EXCEPT !.valid = TRUE], err |-> TRUE]
             ELSE [o |-> [value |-> i[1], valid |-> TRUE], err |-> FALSE]

\* o.Value() were it to send the stored value whether present or not
Value_ignoreValid(o) == DriverInt("int", o.value)

\* o.Value(): nil when absent, else the value itself
Value(o) == IF ~o.valid THEN DriverNil ELSE DriverInt("int", o.value)

\* o.MarshalJSON(): null when absent, else json.Marshal(o.value)
MarshalJSON(o) == IF ~o.valid THEN JSONText("null") ELSE JSONText(ToString(o.value))

\* o.UnmarshalJSON(data): [o after the call, err]
UnmarshalJSON(o, data) ==
    IF data.s = "null"
    THEN [o |-> [o EXCEPT !.valid = FALSE], err |-> FALSE]
    ELSE LET i == ParseInt(data.s)
         IN  IF i = <<>>
             THEN [o |-> [o EXCEPT !.valid = TRUE], err |-> TRUE]
             ELSE [o |-> [value |-> i[1], valid |-> TRUE], err |-> FALSE]

\* no call has been made on the Optional variable yet
OptIdle ==
    [o |-> None, before |-> None, op |-> "none", arg |-> DriverNil, err |-> FALSE,
     src |-> None, wire |-> [t |-> "none", v |-> 0, s |-> ""], got |-> 0]

-----------------------------------------------------------------------------
(* Transactions: core.DB.WithTx.  The table holds tx.rows committed rows;   *)
(* fn writes through the transactional DB and returns nil, returns an error *)
(* or panics.                                                               *)

MaxWrites == 2
MaxStored == 4
MaxOpen == 2

\* what one WithTx call meets: the executor db wraps, whether BeginTx fails,
\* the rows fn creates through txDB, how fn ends, and whether the Commit or
\* Rollback that follows fails
TxOutcomes ==
    {[executor |-> "sql.Tx", beginErr |-> FALSE, writes |-> 0, fn |-> "none",
      endErr |-> FALSE],
     [executor |-> "sql.DB", beginErr |-> TRUE, writes |-> 0, fn |-> "none",
      endErr |-> FALSE]}
    \cup {[executor |-> "sql.DB", beginErr |-> FALSE, writes |-> w, fn |-> f,
           endErr |-> e] :
             w \in 0..MaxWrites, f \in {"nil", "error"}, e \in BOOLEAN}
    \cup {[executor |-> "sql.DB", beginErr |-> FALSE, writes |-> w, fn |-> "panic",
           endErr |-> FALSE] : w \in 0..MaxWrites}

\* db.WithTx(ctx, fn) on a table of rows committed rows: the rows committed
\* afterwards, the error returned, whether the call panicked, and the
\* BeginTx, Commit and Rollback calls that succeeded in being issued
WithTx(rows, o) ==
    LET ret(r, err, begun, commits, rollbacks, panicked) ==
            [rows |-> r, err |-> err, begun |-> begun, commits |-> commits,
             rollbacks |-> rollbacks, panicked |-> panicked]
    IN  IF o.executor # "sql.DB"
        THEN ret(rows, "cannot start transaction: not a *sql.DB", 0, 0, 0, FALSE)
        ELSE IF o.beginErr
        THEN ret(rows, "failed to begin transaction", 0, 0, 0, FALSE)
        ELSE IF o.fn = "panic"
        THEN ret(rows, "", 1, 0, 0, TRUE)
        ELSE IF o.fn = "error"
        THEN ret(rows, IF o.endErr THEN "error rolling back transaction"
                       ELSE "fn error", 1, 0, 1, FALSE)
        ELSE IF o.endErr
        THEN ret(rows, "failed to commit transaction", 1, 1, 0, FALSE)
        ELSE ret(rows + o.writes, "", 1, 1, 0, FALSE)

TxIdle ==
    [rows |-> 0, open |-> 0, op |-> "none", before |-> 0,
     o |-> [executor |-> "sql.DB", beginErr |-> FALSE, writes |-> 0, fn |-> "none",
            endErr |-> FALSE],
     ret |-> [rows |-> 0, err |-> "", begun |-> 0, commits |-> 0, rollbacks |-> 0,
              panicked |-> FALSE]]

-----------------------------------------------------------------------------
(* Migrations: migrate.Migrator.  A Migration is known by its Version.  The *)
(* database holds the control table (mig.table: it exists; mig.applied: the *)
(* versions recorded in it) and, for every version, how much of what its Up *)
(* function does is present (mig.effects: "none", "part", "all").           *)

MaxVersion == 3

Versions == 1..MaxVersion

\* what `for _, migration := range` declares: one variable for the whole loop
\* (Go before 1.22) or one per iteration
LoopVars == {"shared", "perIteration"}

\* the first thing to fail in a call, and the version being run when it
\* does; mig.fail keeps the failure the last call met
MigFailures ==
    {[kind |-> k, at |-> 0] : k \in {"none", "createTable", "getApplied"}}
    \cup {[kind |-> k, at |-> v] :
             k \in {"begin", "fn", "noDown", "record", "commit"}, v \in Versions}

NoFailure == [kind |-> "none", at |-> 0]

\* sort.Slice(m.migrations, ...) were it to leave the order of registration
SortByVersion_asRegistered(migrations) == migrations

RECURSIVE SortByVersion(_)
\* sort.Slice(m.migrations, by Version): the versions are distinct
SortByVersion(migrations) ==
    IF migrations = <<>> THEN <<>>
    ELSE LET least == CHOOSE i \in DOMAIN migrations :
                          \A j \in DOMAIN migrations : migrations[i] <= migrations[j]
         IN  <<migrations[least]>>
             \o SortByVersion(SubSeq(migrations, 1, least - 1)
                              \o SubSeq(migrations, least + 1, Len(migrations)))

\* runMigration(ctx, migration, up) on database d: the Up or Down function
\* is handed m.db and its statements are committed one by one as they run;
\* the transaction holds the control-table statement alone
runMigration(d, version, up, fail) ==
    LET hit(kind) == fail.kind = kind /\ fail.at = version
        part == IF up THEN (IF d.effects[version] = "all" THEN "all" ELSE "part")
                ELSE (IF d.effects[version] = "none" THEN "none" ELSE "part")
        ran == [d EXCEPT !.effects[version] = IF up THEN "all" ELSE "none"]
    IN  IF hit("begin") THEN [d |-> d, err |-> "begin", called |-> FALSE]
        ELSE IF ~up /\ hit("noDown") THEN [d |-> d, err |-> "noDown", called |-> FALSE]
        ELSE IF hit("fn")
        THEN [d |-> [d EXCEPT !.effects[version] = part], err |-> "fn", called |-> TRUE]
        ELSE IF hit("record") THEN [d |-> ran, err |-> "record", called |-> TRUE]
        ELSE IF hit("commit") THEN [d |-> ran, err |-> "commit", called |-> TRUE]
        ELSE [d |-> [ran EXCEPT !.applied = IF up THEN @ \cup {version}
                                            ELSE @ \ {version}],
              err |-> "", called |-> TRUE]

RECURSIVE UpLoop(_, _, _, _, _)
\* the loop of Up over the sorted migrations, applied being the map read
\* before it; ran lists the versions whose Up function was called
UpLoop(d, migrations, applied, fail, ran) ==
    IF migrations = <<>> THEN [d |-> d, err |-> "", ran |-> ran]
    ELSE IF Head(migrations) \in applied
    THEN UpLoop(d, Tail(migrations), applied, fail, ran)
    ELSE LET r == runMigration(d, Head(migrations), TRUE, fail)
             ran2 == IF r.called THEN Append(ran, Head(migrations)) ELSE ran
         IN  IF r.err # "" THEN [d |-> r.d, err |-> r.err, ran |-> ran2]
             ELSE UpLoop(r.d, Tail(migrations), applied, fail, ran2)

\* m.Up(ctx)
Up(m, fail) ==
    LET d == [table |-> TRUE, applied |-> m.applied, effects |-> m.effects]
        r == UpLoop(d, SortByVersion(m.migrations), m.applied, fail, <<>>)
    IN  IF fail.kind = "createTable"
        THEN [m EXCEPT !.op = "Up", !.fail = fail, !.err = "createTable", !.ran = <<>>]
        ELSE IF fail.kind = "getApplied"
        THEN [m EXCEPT !.table = TRUE, !.op = "Up", !.fail = fail,
                       !.err = "getApplied", !.ran = <<>>]
        ELSE [m EXCEPT !.migrations = SortByVersion(m.migrations), !.table = TRUE,
                       !.applied = r.d.applied, !.effects = r.d.effects,
                       !.op = "Up", !.fail = IF r.err = "" THEN NoFailure ELSE fail,
                       !.err = r.err, !.ran = r.ran]

\* the migration lastMigration points to after the loop of Down: <<>> is nil
lastMigration(migrations, applied, loopvar) ==
    LET found == {i \in DOMAIN migrations : migrations[i] \in applied}
    IN  IF found = {} THEN <<>>
        ELSE IF loopvar = "shared" THEN <<migrations[Len(migrations)]>>
        ELSE <<migrations[CHOOSE i \in found :
                            \A j \in found : migrations[j] <= migrations[i]]>>

\* m.Down(ctx)
Down(m, fail) ==
    LET d == [table |-> m.table, applied |-> m.applied, effects |-> m.effects]
        ended(err) == [m EXCEPT !.op = "Down", !.err = err, !.ran = <<>>,
                                !.fail = IF fail.kind = err THEN fail ELSE NoFailure]
        chosen == lastMigration(m.migrations, m.applied, m.loopvar)
        r == runMigration(d, chosen[1], FALSE, [fail EXCEPT !.at = chosen[1]])
    IN  IF ~m.table \/ fail.kind = "getApplied" THEN ended("getApplied")
        ELSE IF m.applied = {} THEN ended("")
        ELSE IF chosen = <<>> THEN ended("no migration found to revert")
        ELSE [m EXCEPT !.applied = r.d.applied, !.effects = r.d.effects,
                       !.op = "Down", !.err = r.err,
                       !.fail = IF r.err = "" THEN NoFailure
                                ELSE [fail EXCEPT !.at = chosen[1]],
                       !.ran = IF r.called THEN chosen ELSE <<>>]

\* migrate.New(db, dialect, logger, config) on a new database
MigIdle ==
    [migrations |-> <<>>, table |-> FALSE, applied |-> {},
     effects |-> [v \in Versions |-> "none"], loopvar |-> "perIteration",
     op |-> "none", fail |-> NoFailure, err |-> "", ran |-> <<>>]

-----------------------------------------------------------------------------
(* Code generation: codegen.Generator.  A source file is the sequence of    *)
(* the struct types it declares, each a sequence of fields (Name, Go type,  *)
(* db tag).  A generated file holds the code generateCode made from one     *)
(* StructInfo; gen.disk maps the path of every generated file to the        *)
(* StructInfo its content was made from.                                    *)

\* the Go files of directory models, in the order os.ReadDir lists them
SourceTree ==
    LET f(name, type, tag) == [Name |-> name, Type |-> type, Tag |-> tag]
        s(name, fields) == [Name |-> name, Fields |-> fields]
    IN  <<[dir |-> "models", base |-> "models", package |-> "models", structs |->
             <<s("User", <<f("Model", "core.Model", ""), f("Name", "string", "name"),
                           f("Age", "core.Optional[int]", "age")>>),
               s("Product", <<f("SKU", "string", "sku"), f("Price", "float64", "price")>>),
               s("Category", <<f("ID", "int64", "id"), f("Internal", "string", "-")>>),
               s("Order", <<f("Total", "float64", "total")>>)>>],
          [dir |-> "models", base |-> "user", package |-> "models", structs |->
             <<s("User", <<f("Name", "string", "name")>>)>>],
          [dir |-> "models", base |-> "util", package |-> "models", structs |->
             <<s("Options", <<f("Debug", "bool", "")>>)>>]>>

\* extractStructs(node): the StructInfo of every struct with a db-tagged
\* field, in declaration order; getQueryFieldType maps the Go type
extractStructs(file) ==
    LET FieldType(t) ==
            CASE t = "string" -> "query.StringField"
              [] t = "int" -> "query.IntField"
              [] t = "int64" -> "query.Int64Field"
              [] t = "bool" -> "query.BoolField"
              [] t = "float64" -> "query.Float64Field"
              [] t = "core.Optional[int]" -> "query.OptionalIntField"
              [] OTHER -> "query.StringField"
        info(st) ==
            LET tagged == SelectSeq(st.Fields, LAMBDA fd : fd.Tag \notin {"", "-"})
            IN  [Name |-> st.Name,
                 Fields |-> [i \in DOMAIN tagged |->
                               [Name |-> tagged[i].Name, ColumnName |-> tagged[i].Tag,
                                Type |-> tagged[i].Type,
                                FieldType |-> FieldType(tagged[i].Type)]],
                 Package |-> "",
                 ImportCore |-> \E i \in DOMAIN tagged :
                                   tagged[i].Type = "core.Optional[int]"]
        infos == [i \in DOMAIN file.structs |-> info(file.structs[i])]
    IN  SelectSeq(infos, LAMBDA si : Len(si.Fields) > 0)

\* generateFieldsFile(structInfo, sourceFile): os.WriteFile replaces what
\* the output file held
generateFieldsFile(disk, outputDir, structInfo, file) ==
    (<<IF outputDir = "" THEN file.dir ELSE outputDir, "/", file.base,
       "_fields.gen.go">> :> structInfo) @@ disk

RECURSIVE generateFromFile(_, _, _, _, _, _)
\* generateFromFile(filename), structs being those not yet generated and
\* done the number already written: the parse or the write named by fail
\* fails
generateFromFile(disk, outputDir, file, structs, done, fail) ==
    IF fail.base = file.base /\ fail.kind = "parse"
    THEN [disk |-> disk, err |-> "failed to parse file"]
    ELSE IF structs = <<>> THEN [disk |-> disk, err |-> ""]
    ELSE IF fail.base = file.base /\ fail.kind = "write" /\ fail.at = done + 1
    THEN [disk |-> disk, err |-> "failed to write file"]
    ELSE generateFromFile(
             generateFieldsFile(disk, outputDir,
                 [Head(structs) EXCEPT !.Package = file.package], file),
             outputDir, file, Tail(structs), done + 1, fail)

RECURSIVE generateFromDir(_, _, _, _)
\* generateFromDir(dir), entries being the Go source files not yet visited
generateFromDir(disk, outputDir, entries, fail) ==
    IF entries = <<>> THEN [disk |-> disk, err |-> ""]
    ELSE LET r == generateFromFile(disk, outputDir, Head(entries),
                                   extractStructs(Head(entries)), 0, fail)
         IN  IF r.err # "" THEN r
             ELSE generateFromDir(r.disk, outputDir, Tail(entries), fail)

\* NewGenerator(Config{OutputDir: outputDir}).GenerateFromPath(path)
GenerateFromPath(disk, outputDir, path, fail) ==
    LET named == {i \in DOMAIN SourceTree :
                    <<SourceTree[i].dir, "/", SourceTree[i].base, ".go">> = path}
    IN  IF fail.kind = "stat" \/ (path # <<"models">> /\ named = {})
        THEN [disk |-> disk, err |-> "failed to stat path"]
        ELSE IF path = <<"models">>
        THEN generateFromDir(disk, outputDir, SourceTree, fail)
        ELSE LET file == SourceTree[CHOOSE i \in named : TRUE]
             IN  generateFromFile(disk, outputDir, file, extractStructs(file), 0, fail)

\* calls of GenerateFromPath: the path, Config.OutputDir, what fails
GenInputs ==
    LET paths == {<<"models">>, <<"models", "/", "models", ".go">>,
                  <<"models", "/", "user", ".go">>, <<"models", "/", "util", ".go">>,
                  <<"models", "/", "missing", ".go">>}
        fails == {[kind |-> k, base |-> "", at |-> 0] : k \in {"none", "stat"}}
                 \cup {[kind |-> "parse", base |-> SourceTree[i].base, at |-> 0] :
                          i \in DOMAIN SourceTree}
                 \cup UNION {{[kind |-> "write", base |-> SourceTree[i].base,
                                at |-> k] :
                                  k \in DOMAIN extractStructs(SourceTree[i])} :
                               i \in DOMAIN SourceTree}
    IN  paths \X {"", "gen"} \X fails

\* no generated file on disk, no call made
GenIdle ==
    [disk |-> [p \in {} |-> <<>>], op |-> "none", path |-> <<>>, outputDir |-> "",
     err |-> ""]

-----------------------------------------------------------------------------
(* Inputs the builder specification draws from *)

AgeGt18 == Compare("IntField", "age", OpGt, "18")
IsActiveEqTrue == Compare("BoolField", "is_active", OpEq, "true")
NameInAB == In("StringField", "name", <<"'a'", "'b'">>)
DeletedAtIsNull == IsNull("OptionalStringField", "deleted_at")
AgeBetween == Between("IntField", "age", "10", "20")
ScoreBetween == Between("OptionalFloat64Field", "score", "1.5", "2.5")

\* And(a, b, c)
And3 == And(<<AgeGt18, AgeBetween, IsActiveEqTrue>>)

\* a group holding a leaf and a group: ConditionGroup{[name IN .., And(..)], OR}
NestedGroup ==
    ConditionGroup(<<NameInAB, And(<<DeletedAtIsNull, AgeGt18>>)>>, LogicalOr)

\* conditions and groups passed to Where: leaves, a three-leaf group, a
\* group nested in a group, the empty group, and a float64 Between
WhereArgs == {AgeGt18, IsActiveEqTrue, ScoreBetween, And3, NestedGroup, And(<<>>)}

OrderAscArgs == {"name"}
OrderDescArgs == {"age"}
LimitArgs == {10}
OffsetArgs == {20}
SelectArgs == {<<"id", "name">>}

\* the values the other specifications' variables hold in this one
NoRender == [d |-> "postgres", ft |-> "IntField", cond |-> AgeGt18, argIndex |-> 1]
NoOutput == [sql |-> <<>>, args |-> <<>>, argIndex |-> 0]

-----------------------------------------------------------------------------
(* Specification of the sequential builder API.  Calls are made one after   *)
(* the other: last = Idle when no result is waiting to be taken.            *)

Init ==
    /\ b \in {NewBuilder(d, "users") : d \in Dialects}
    /\ last = Idle
    /\ rin = NoRender
    /\ rout = NoOutput
    /\ pc = <<>>
    /\ loaded = <<>>
    /\ snap = <<>>
    /\ opt = OptIdle
    /\ tx = TxIdle
    /\ mig = MigIdle
    /\ gen = GenIdle

\* b.Where(condition): appends to the receiver's conditions and returns b
Where(condition) ==
    /\ last = Idle
    /\ Len(b.conditions) + Len(b.orderBy) < MaxClauses
    /\ b' = [b EXCEPT !.conditions = Append(@, condition)]
    /\ last' = Idle
    /\ UNCHANGED <<rin, rout, pc, loaded, snap, opt, tx, mig, gen>>

\* b.OrderByAsc(column): appends to the receiver's orderBy and returns b
OrderByAsc(column) ==
    /\ last = Idle
    /\ Len(b.conditions) + Len(b.orderBy) < MaxClauses
    /\ b' = [b EXCEPT !.orderBy = Append(@, OrderBy(column, FALSE))]
    /\ last' = Idle
    /\ UNCHANGED <<rin, rout, pc, loaded, snap, opt, tx, mig, gen>>

\* b.OrderByDesc(column): appends to the receiver's orderBy and returns b
OrderByDesc(column) ==
    /\ last = Idle
    /\ Len(b.conditions) + Len(b.orderBy) < MaxClauses
    /\ b' = [b EXCEPT !.orderBy = Append(@, OrderBy(column, TRUE))]
    /\ last' = Idle
    /\ UNCHANGED <<rin, rout, pc, loaded, snap, opt, tx, mig, gen>>

\* b.Limit(limit): sets the receiver's limit and returns b
Limit(limit) ==
    /\ last = Idle
    /\ b' = [b EXCEPT !.limit = <<limit>>]
    /\ last' = Idle
    /\ UNCHANGED <<rin, rout, pc, loaded, snap, opt, tx, mig, gen>>

\* b.Offset(offset): sets the receiver's offset and returns b
Offset(offset) ==
    /\ last = Idle
    /\ b' = [b EXCEPT !.offset = <<offset>>]
    /\ last' = Idle
    /\ UNCHANGED <<rin, rout, pc, loaded, snap, opt, tx, mig, gen>>

\* b.Select(columns...): sets the receiver's selectCols and returns b
Select(columns) ==
    /\ last = Idle
    /\ b' = [b EXCEPT !.selectCols = columns]
    /\ last' = Idle
    /\ UNCHANGED <<rin, rout, pc, loaded, snap, opt, tx, mig, gen>>

\* b.Find(ctx)
Find ==
    LET q == buildSelectQuery(b)
    IN  /\ last = Idle
        /\ \E o \in QueryOutcomes : last' = FindResult(q, o)
        /\ UNCHANGED <<b, rin, rout, pc, loaded, snap, opt, tx, mig, gen>>

\* b.First(ctx): b.Limit(1) on the receiver, then b.Find(ctx)
First ==
    LET limited == [b EXCEPT !.limit = <<1>>]
        q == buildSelectQuery(limited)
    IN  /\ last = Idle
        /\ b' = limited
        /\ \E o \in QueryOutcomes : last' = FirstResult(FindResult(q, o))
        /\ UNCHANGED <<rin, rout, pc, loaded, snap, opt, tx, mig, gen>>

\* b.Count(ctx)
Count ==
    LET q == buildCountQuery(b)
    IN  /\ last = Idle
        /\ \E o \in CountOutcomes : last' = CountResult(q, o)
        /\ UNCHANGED <<b, rin, rout, pc, loaded, snap, opt, tx, mig, gen>>

\* the caller takes the result of a terminal call; the builder stays usable
Return ==
    /\ last # Idle
    /\ last' = Idle
    /\ UNCHANGED <<b, rin, rout, pc, loaded, snap, opt, tx, mig, gen>>

Next ==
    \/ \E c \in WhereArgs : Where(c)
    \/ \E col \in OrderAscArgs : OrderByAsc(col)
    \/ \E col \in OrderDescArgs : OrderByDesc(col)
    \/ \E n \in LimitArgs : Limit(n)
    \/ \E n \in OffsetArgs : Offset(n)
    \/ \E cols \in SelectArgs : Select(cols)
    \/ Find
    \/ First
    \/ Count
    \/ Return

Spec == Init /\ [][Next]_vars

-----------------------------------------------------------------------------
(* Specification of buildCondition as a function: every descriptor type's  *)
(* In, NotIn and Between, at every placeholder position, in every dialect. *)

\* the sequences of 0..MaxVals literals of Go type t
LiteralSeqs(t) == UNION {[1..n -> Literals(t)] : n \in 0..MaxVals}

\* the column each descriptor of the model is bound to
ColumnOf(ft) ==
    CASE ft = "StringField" -> "name"
      [] ft = "IntField" -> "age"
      [] ft = "Int64Field" -> "id"
      [] ft = "BoolField" -> "is_active"
      [] ft = "OptionalStringField" -> "nickname"
      [] ft = "OptionalIntField" -> "rank"
      [] ft = "OptionalInt64Field" -> "parent_id"
      [] ft = "OptionalBoolField" -> "verified"
      [] ft = "OptionalFloat64Field" -> "score"

\* the calls f.Between(lo, hi) of every descriptor type that has the method
BetweenCalls ==
    UNION {{[ft |-> ft, cond |-> Between(ft, ColumnOf(ft), lo, hi)] :
              lo \in Literals(ElemType(ft)), hi \in Literals(ElemType(ft))} :
           ft \in OrderedFieldTypes}

\* the calls f.In(values...) and f.NotIn(values...) of every descriptor type
InCalls ==
    UNION {{[ft |-> ft, cond |-> In(ft, ColumnOf(ft), lits)] :
              lits \in LiteralSeqs(ElemType(ft))} : ft \in FieldTypes}
    \cup UNION {{[ft |-> ft, cond |-> NotIn(ft, ColumnOf(ft), lits)] :
                   lits \in LiteralSeqs(ElemType(ft))} : ft \in FieldTypes}

InitCond ==
    /\ b = NewBuilder("postgres", "users")
    /\ last = Idle
    /\ rin \in {[d |-> d, ft |-> c.ft, cond |-> c.cond, argIndex |-> k] :
                  d \in Dialects, c \in BetweenCalls \cup InCalls,
                  k \in 1..MaxArgIndex}
    /\ rout = NoOutput
    /\ pc = <<>>
    /\ loaded = <<>>
    /\ snap = <<>>
    /\ opt = OptIdle
    /\ tx = TxIdle
    /\ mig = MigIdle
    /\ gen = GenIdle

\* b.buildCondition(cond, &argIndex) on the input drawn
BuildCondition ==
    /\ rout = NoOutput
    /\ rout' = buildCondition(rin.d, rin.cond, rin.argIndex)
    /\ UNCHANGED <<b, last, rin, pc, loaded, snap, opt, tx, mig, gen>>

NextCond == BuildCondition

SpecCond == InitCond /\ [][NextCond]_vars

-----------------------------------------------------------------------------
(* Specification of concurrent derivation: two threads call Where on the   *)
(* same base builder with no synchronization.  Line 45 of builder.go,      *)
(* b.conditions = append(b.conditions, condition), reads the slice and     *)
(* then writes it: two steps another thread may run between.  The slice    *)
(* header is read and written whole here (no torn header).                 *)

Threads == {"t1", "t2"}

InitConc ==
    /\ \E d \in Dialects, base \in {<<>>} \cup {<<c>> : c \in WhereArgs} :
         /\ b = [NewBuilder(d, "users") EXCEPT !.conditions = base]
         /\ snap = base
    /\ pc \in [Threads -> {[at |-> "call", cond |-> c] : c \in WhereArgs}]
    /\ loaded = [t \in Threads |-> <<>>]
    /\ last = Idle
    /\ rin = NoRender
    /\ rout = NoOutput
    /\ opt = OptIdle
    /\ tx = TxIdle
    /\ mig = MigIdle
    /\ gen = GenIdle

\* thread t evaluates append's argument: it reads b.conditions
WhereLoad(t) ==
    /\ pc[t].at = "call"
    /\ loaded' = [loaded EXCEPT ![t] = b.conditions]
    /\ pc' = [pc EXCEPT ![t].at = "append"]
    /\ UNCHANGED <<b, last, rin, rout, snap, opt, tx, mig, gen>>

\* thread t assigns the appended slice to b.conditions and returns b
WhereStore(t) ==
    /\ pc[t].at = "append"
    /\ b' = [b EXCEPT !.conditions = Append(loaded[t], pc[t].cond)]
    /\ pc' = [pc EXCEPT ![t].at = "ret"]
    /\ UNCHANGED <<last, rin, rout, loaded, snap, opt, tx, mig, gen>>

NextConc ==
    \/ \E t \in Threads : WhereLoad(t)
    \/ \E t \in Threads : WhereStore(t)

SpecConc == InitConc /\ [][NextConc]_vars

-----------------------------------------------------------------------------
(* Specification of Not as a function: every condition a descriptor method *)
(* builds, negated once and twice.                                          *)

\* f.Eq .. f.Lte of descriptor type ft with every literal of its value type
CompareCalls(ft, ops) ==
    {[ft |-> ft, cond |-> Compare(ft, ColumnOf(ft), op, lit)] :
        op \in ops, lit \in Literals(ElemType(ft))}

\* the conditions the methods of every descriptor type return
NotCalls ==
    UNION {CompareCalls(ft, {OpEq, OpNe}) : ft \in FieldTypes}
    \cup UNION {CompareCalls(ft, {OpGt, OpGte, OpLt, OpLte}) : ft \in OrderedFieldTypes}
    \cup UNION {CompareCalls(ft, {OpLike, OpNotLike}) :
                   ft \in {"StringField", "OptionalStringField"}}
    \cup {[ft |-> ft, cond |-> IsNull(ft, ColumnOf(ft))] : ft \in FieldTypes}
    \cup {[ft |-> ft, cond |-> IsNotNull(ft, ColumnOf(ft))] : ft \in FieldTypes}
    \cup BetweenCalls \cup InCalls

InitNot ==
    /\ b = NewBuilder("postgres", "users")
    /\ last = Idle
    /\ rin \in {[d |-> "postgres", ft |-> c.ft, cond |-> c.cond, argIndex |-> 1] :
                  c \in NotCalls}
    /\ rout = NoOutput
    /\ pc = <<>>
    /\ loaded = <<>>
    /\ snap = <<>>
    /\ opt = OptIdle
    /\ tx = TxIdle
    /\ mig = MigIdle
    /\ gen = GenIdle

\* r := Not(c); rr := Not(r), c being the caller's variable rin.cond: Go
\* passes the Condition by value, so c is what it was.  rout holds r, rr and c
\* as they are after the two calls.
ApplyNot ==
    /\ rout = NoOutput
    /\ rout' = [once |-> Not(rin.cond), twice |-> Not(Not(rin.cond)),
                arg |-> rin.cond]
    /\ UNCHANGED <<b, last, rin, pc, loaded, snap, opt, tx, mig, gen>>

NextNot == ApplyNot

SpecNot == InitNot /\ [][NextNot]_vars

-----------------------------------------------------------------------------
(* The scanner: query/scanner.go.  A struct type is the sequence of its     *)
(* fields; a field path is a sequence of 0-based field indices; a           *)
(* destination value maps the path of every leaf field to what it holds     *)
(* (0 is the zero value).                                                   *)

\* reflect.StructField: Name, Tag.Get("db"), Anonymous, and the fields of Type
StructField(name, tag, anonymous, fields) ==
    [Name |-> name, Tag |-> tag, Anonymous |-> anonymous, Fields |-> fields]

\* the base record: ID `db:"id"`, CreatedAt `db:"created_at"`
ModelType ==
    <<StructField("ID", "id", FALSE, <<>>),
      StructField("CreatedAt", "created_at", FALSE, <<>>)>>

\* destination record types, by name: User embeds Model; Deep embeds Base,
\* which embeds Model; Flat embeds nothing; Clash declares column id in the
\* embedded Model and again after it, ClashFirst before it, Twice declares
\* column name in two fields of its own
TypeOf(name) ==
    CASE name = "User" ->
           <<StructField("Model", "", TRUE, ModelType),
             StructField("Name", "name", FALSE, <<>>),
             StructField("Password", "-", FALSE, <<>>),
             StructField("Cache", "", FALSE, <<>>)>>
      [] name = "Deep" ->
           <<StructField("Name", "name", FALSE, <<>>),
             StructField("Base", "", TRUE,
                 <<StructField("Model", "", TRUE, ModelType),
                   StructField("Email", "email", FALSE, <<>>)>>)>>
      [] name = "Flat" ->
           <<StructField("ID", "id", FALSE, <<>>),
             StructField("Name", "name", FALSE, <<>>)>>
      [] name = "Clash" ->
           <<StructField("Model", "", TRUE, ModelType),
             StructField("LegacyID", "id", FALSE, <<>>)>>
      [] name = "ClashFirst" ->
           <<StructField("LegacyID", "id", FALSE, <<>>),
             StructField("Model", "", TRUE, ModelType)>>
      [] name = "Twice" ->
           <<StructField("Name", "name", FALSE, <<>>),
             StructField("Alias", "name", FALSE, <<>>)>>
      [] name = "Int" -> <<>>

\* reflect.Kind of the destination type
KindOf(name) == IF name = "Int" THEN "int" ELSE "struct"

DestTypes == {"User", "Deep", "Flat", "Clash", "ClashFirst", "Twice", "Int"}

RECURSIVE LeafPaths(_, _)
\* the paths of the leaf (not embedded) fields of typ, below parentPath
LeafPaths(typ, parentPath) ==
    UNION {IF typ[i].Anonymous
           THEN LeafPaths(typ[i].Fields, Append(parentPath, i - 1))
           ELSE {Append(parentPath, i - 1)} : i \in DOMAIN typ}

\* var item T: every field holds its zero value
ZeroValue(typ) == [p \in LeafPaths(typ, <<>>) |-> 0]

RECURSIVE getFieldByPath(_, _)
\* getFieldByPath(value, path): whether the walk ends at a field (IsValid)
getFieldByPath(typ, path) ==
    IF path = <<>> THEN TRUE
    ELSE IF Head(path) >= Len(typ) THEN FALSE
    ELSE getFieldByPath(typ[Head(path) + 1].Fields, Tail(path))

\* orders in which a range over a map of columns may visit its keys
MapOrders ==
    {<<"id", "created_at", "name", "email">>, <<"email", "name", "created_at", "id">>}

\* the order in which the range statements of this run visit the keys
RangeOrder == rin.order

RECURSIVE RangeAssign_keepExisting(_, _, _)
\* the merge loop were it to keep a column that fieldMap holds already
RangeAssign_keepExisting(order, embeddedMap, fieldMap) ==
    IF order = <<>> THEN fieldMap
    ELSE LET k == Head(order)
         IN  RangeAssign_keepExisting(Tail(order), embeddedMap,
                 IF k \in DOMAIN embeddedMap
                 THEN fieldMap @@ (k :> embeddedMap[k])
                 ELSE fieldMap)

RECURSIVE RangeAssign(_, _, _)
\* for k, v := range embeddedMap { fieldMap[k] = v }, the keys visited in order
RangeAssign(order, embeddedMap, fieldMap) ==
    IF order = <<>> THEN fieldMap
    ELSE LET k == Head(order)
         IN  RangeAssign(Tail(order), embeddedMap,
                 IF k \in DOMAIN embeddedMap
                 THEN (k :> embeddedMap[k]) @@ fieldMap
                 ELSE fieldMap)

RECURSIVE buildFieldMapWithPrefix(_, _)
RECURSIVE FieldMapUpTo(_, _, _)

\* the loop of buildFieldMapWithPrefix after its first n iterations
FieldMapUpTo(typ, parentPath, n) ==
    IF n = 0 THEN [k \in {} |-> <<>>]
    ELSE LET fieldMap == FieldMapUpTo(typ, parentPath, n - 1)
             field == typ[n]
             currentPath == Append(parentPath, n - 1)
         IN  IF field.Anonymous
             THEN RangeAssign(RangeOrder,
                      buildFieldMapWithPrefix(field.Fields, currentPath), fieldMap)
             ELSE IF field.Tag = "" \/ field.Tag = "-"
             THEN fieldMap
             ELSE (field.Tag :> currentPath) @@ fieldMap

\* buildFieldMapWithPrefix were it to map an embedded struct's columns to
\* the embedded field itself
buildFieldMapWithPrefix_embeddedWhole(typ, parentPath) ==
    LET fieldMap == FieldMapUpTo(typ, parentPath, Len(typ))
    IN  [k \in DOMAIN fieldMap |-> SubSeq(fieldMap[k], 1, Len(parentPath) + 1)]

\* buildFieldMapWithPrefix(typ, parentPath): column name -> field path
buildFieldMapWithPrefix(typ, parentPath) == FieldMapUpTo(typ, parentPath, Len(typ))

\* buildFieldMap(typ)
buildFieldMap(typ) == buildFieldMapWithPrefix(typ, <<>>)

\* rows.Scan(scanValues...): the values are assigned in column order; the
\* first value that cannot be converted to its target ends the call with an
\* error; a *interface{} placeholder takes any value
RowsScan(dest, scanValues, row) ==
    LET bad == {i \in DOMAIN row : scanValues[i].field /\ ~row[i].conv}
        failAt == IF bad = {} THEN Len(row) + 1
                  ELSE CHOOSE i \in bad : \A j \in bad : i <= j
        Writes(p) == {i \in 1..(failAt - 1) :
                        scanValues[i].field /\ scanValues[i].path = p}
    IN  [dest |-> [p \in DOMAIN dest |->
                     IF Writes(p) = {} THEN dest[p]
                     ELSE row[CHOOSE i \in Writes(p) : \A j \in Writes(p) : j <= i].val],
         err |-> IF bad = {} THEN "" ELSE "scan error",
         scanValues |-> scanValues]

\* scanStruct were it to reject a column that no field declares
scanStruct_strict(name, columns, row, colsErr) ==
    LET fieldMap == buildFieldMap(TypeOf(name))
        scanValues == [i \in DOMAIN columns |->
                         IF columns[i] \in DOMAIN fieldMap
                         THEN [field |-> TRUE, path |-> fieldMap[columns[i]]]
                         ELSE [field |-> FALSE, path |-> <<>>]]
    IN  IF \E i \in DOMAIN columns : columns[i] \notin DOMAIN fieldMap
        THEN [dest |-> ZeroValue(TypeOf(name)), err |-> "unknown column",
              scanValues |-> scanValues]
        ELSE RowsScan(ZeroValue(TypeOf(name)), scanValues, row)

\* scanStruct(rows, &item), item being a new T named name: columns are
\* rows.Columns() (colsErr: that call fails), row the values of the row
scanStruct(name, columns, row, colsErr) ==
    LET typ == TypeOf(name)
        failed(msg) == [dest |-> ZeroValue(typ), err |-> msg, scanValues |-> <<>>]
        fieldMap == buildFieldMap(typ)
        scanValues == [i \in DOMAIN columns |->
                         IF columns[i] \in DOMAIN fieldMap
                            /\ getFieldByPath(typ, fieldMap[columns[i]])
                         THEN [field |-> TRUE, path |-> fieldMap[columns[i]]]
                         ELSE [field |-> FALSE, path |-> <<>>]]
    IN  IF KindOf(name) # "struct" THEN failed("dest must be a pointer to struct")
        ELSE IF colsErr THEN failed("failed to get columns")
        ELSE RowsScan(ZeroValue(typ), scanValues, row)

-----------------------------------------------------------------------------
(* Specification of scanStruct as a function: every destination type, every *)
(* list of up to MaxCols column names, every row.                           *)

ColumnNames == {"id", "created_at", "name", "extra"}

\* the row of n columns whose i-th value is i and converts to a typed field
\* when conv[i]
RowValues(n, conv) == [i \in 1..n |-> [val |-> i, conv |-> conv[i]]]

\* the calls on a row of n columns, and for n = 0 those whose rows.Columns()
\* fails
ScanInputs(n) ==
    {[name |-> t, columns |-> cols, row |-> RowValues(n, conv), colsErr |-> FALSE,
      order |-> o] :
        cols \in [1..n -> ColumnNames], conv \in [1..n -> BOOLEAN],
        t \in DestTypes, o \in MapOrders}
    \cup (IF n > 0 THEN {}
          ELSE {[name |-> t, columns |-> <<>>, row |-> <<>>, colsErr |-> TRUE,
                 order |-> o] : t \in DestTypes, o \in MapOrders})

InitScan ==
    /\ b = NewBuilder("postgres", "users")
    /\ last = Idle
    /\ \E n \in 0..MaxCols : rin \in ScanInputs(n)
    /\ rout = NoOutput
    /\ pc = <<>>
    /\ loaded = <<>>
    /\ snap = <<>>
    /\ opt = OptIdle
    /\ tx = TxIdle
    /\ mig = MigIdle
    /\ gen = GenIdle

\* scanStruct(rows, &item) on the input drawn
ScanStruct ==
    /\ rout = NoOutput
    /\ rout' = scanStruct(rin.name, rin.columns, rin.row, rin.colsErr)
    /\ UNCHANGED <<b, last, rin, pc, loaded, snap, opt, tx, mig, gen>>

NextScan == ScanStruct

SpecScan == InitScan /\ [][NextScan]_vars

-----------------------------------------------------------------------------
(* Specification of one Optional[int] variable o: it is assigned from the   *)
(* constructors, decoded into (Scan, UnmarshalJSON: pointer receivers),     *)
(* encoded (Value, MarshalJSON) and read (GetOrZero).  opt.src and opt.wire *)
(* keep the Optional last encoded and its encoding; opt.before is o as it   *)
(* was when the last call was made.                                         *)

\* values a driver hands to Scan
DriverValues ==
    {DriverNil}
    \cup {DriverInt(t, n) : t \in {"int", "int64"}, n \in OptInts}
    \cup {DriverText("[]byte", "5"), DriverText("[]byte", "abc"),
          DriverText("string", "5")}

\* texts encoding/json hands to UnmarshalJSON
JSONInputs ==
    {JSONText("null"), JSONText("\"abc\"")} \cup {JSONText(ToString(n)) : n \in OptInts}

\* the record of a call that leaves o at after
Called(op, after, arg, err) ==
    [opt EXCEPT !.before = opt.o, !.o = after, !.op = op, !.arg = arg,
                !.err = err, !.got = 0]

InitOpt ==
    /\ b = NewBuilder("postgres", "users")
    /\ last = Idle
    /\ rin = NoRender
    /\ rout = NoOutput
    /\ pc = <<>>
    /\ loaded = <<>>
    /\ snap = <<>>
    /\ opt = OptIdle
    /\ tx = TxIdle
    /\ mig = MigIdle
    /\ gen = GenIdle

\* o = Some(value)
CallSome(value) ==
    /\ opt' = Called("Some", Some(value), DriverNil, FALSE)
    /\ UNCHANGED <<b, last, rin, rout, pc, loaded, snap, tx, mig, gen>>

\* o = None[int](), and var o Optional[int]
CallNone ==
    /\ opt' = Called("None", None, DriverNil, FALSE)
    /\ UNCHANGED <<b, last, rin, rout, pc, loaded, snap, tx, mig, gen>>

\* o = FromPtr(ptr)
CallFromPtr(ptr) ==
    /\ opt' = Called("FromPtr", FromPtr(ptr), DriverNil, FALSE)
    /\ UNCHANGED <<b, last, rin, rout, pc, loaded, snap, tx, mig, gen>>

\* o.Scan(value)
CallScan(value) ==
    /\ LET r == Scan(opt.o, value)
       IN  opt' = Called("Scan", r.o, value, r.err)
    /\ UNCHANGED <<b, last, rin, rout, pc, loaded, snap, tx, mig, gen>>

\* o.UnmarshalJSON(data)
CallUnmarshalJSON(data) ==
    /\ LET r == UnmarshalJSON(opt.o, data)
       IN  opt' = Called("UnmarshalJSON", r.o, data, r.err)
    /\ UNCHANGED <<b, last, rin, rout, pc, loaded, snap, tx, mig, gen>>

\* wire, _ := o.Value()
CallValue ==
    /\ opt' = [Called("Value", opt.o, DriverNil, FALSE)
                  EXCEPT !.src = opt.o, !.wire = Value(opt.o)]
    /\ UNCHANGED <<b, last, rin, rout, pc, loaded, snap, tx, mig, gen>>

\* wire, _ := o.MarshalJSON()
CallMarshalJSON ==
    /\ opt' = [Called("MarshalJSON", opt.o, DriverNil, FALSE)
                  EXCEPT !.src = opt.o, !.wire = MarshalJSON(opt.o)]
    /\ UNCHANGED <<b, last, rin, rout, pc, loaded, snap, tx, mig, gen>>

\* got := o.GetOrZero()
CallGetOrZero ==
    /\ opt' = [Called("GetOrZero", opt.o, DriverNil, FALSE)
                  EXCEPT !.got = GetOrZero(opt.o)]
    /\ UNCHANGED <<b, last, rin, rout, pc, loaded, snap, tx, mig, gen>>

NextOpt ==
    \/ \E n \in OptInts : CallSome(n)
    \/ CallNone
    \/ \E ptr \in {<<>>} \cup {<<n>> : n \in OptInts} : CallFromPtr(ptr)
    \/ \E value \in DriverValues : CallScan(value)
    \/ \E data \in JSONInputs : CallUnmarshalJSON(data)
    \/ CallValue
    \/ CallMarshalJSON
    \/ CallGetOrZero

SpecOpt == InitOpt /\ [][NextOpt]_vars

-----------------------------------------------------------------------------
(* Vocabulary of the properties *)

\* a terminal call has returned and its result has not been taken yet
Terminal == last.op \in {"Find", "First", "Count"}

\* the numbered placeholder of position n, as the text shows it
Dollar(n) == "$" \o ToString(n)

\* the numbered placeholders of a text, in the order they appear in it
PlaceholdersIn(query) ==
    LET IsNumbered(f) == \E n \in 0..Len(query) : f = Dollar(n)
    IN  SelectSeq(query, IsNumbered)

\* sub appears in seq as a run of consecutive fragments
IsInfix(sub, seq) ==
    \E i \in 1..(Len(seq) - Len(sub) + 1) : SubSeq(seq, i, i + Len(sub) - 1) = sub

RECURSIVE Leaves(_)
\* the leaf conditions of a condition list, depth first, left to right
Leaves(conds) ==
    IF conds = <<>> THEN <<>>
    ELSE LET c == Head(conds)
         IN  (IF c.type = "ConditionGroup" THEN Leaves(c.Conditions) ELSE <<c>>)
             \o Leaves(Tail(conds))

RECURSIVE LeafOperands(_, _)
\* the operands the leaves bind, each leaf taken alone, in the leaves' order
LeafOperands(d, leaves) ==
    IF leaves = <<>> THEN <<>>
    ELSE buildCondition(d, Head(leaves), 1).args \o LeafOperands(d, Tail(leaves))

RECURSIVE ExpectedText(_, _, _, _)
\* the text of a condition list whose first placeholder has position k: the
\* elements joined by sep; a group in parentheses, its children joined by the
\* group's own keyword; a leaf as buildCondition renders it at its position
ExpectedText(d, items, sep, k) ==
    IF items = <<>> THEN <<>>
    ELSE LET c == Head(items)
             text == IF c.type = "ConditionGroup"
                     THEN <<"(">>
                          \o ExpectedText(d, c.Conditions, " " \o c.Operator \o " ", k)
                          \o <<")">>
                     ELSE buildCondition(d, c, k).sql
             used == Len(LeafOperands(d, Leaves(<<c>>)))
         IN  text \o (IF Len(items) > 1
                      THEN <<sep>> \o ExpectedText(d, Tail(items), sep, k + used)
                      ELSE <<>>)

RECURSIVE HasEmptyGroup(_)
\* some group of the list, at top level or nested, has no children
HasEmptyGroup(conds) ==
    IF conds = <<>> THEN FALSE
    ELSE LET c == Head(conds)
         IN  \/ c.type = "ConditionGroup"
                /\ (c.Conditions = <<>> \/ HasEmptyGroup(c.Conditions))
             \/ HasEmptyGroup(Tail(conds))

\* some Between leaf of the list does not resolve to exactly two operands
HasMalformedBetween(conds) ==
    \E i \in DOMAIN Leaves(conds) :
        /\ Leaves(conds)[i].Operator = OpBetween
        /\ Len(interfaceSlice(Leaves(conds)[i].Value)) # 2

\* what a query text holds after the table name: the WHERE clause and the
\* clauses that follow it
AfterTable(d, query) ==
    LET table == QuoteIdentifier(d, "users")
        i == CHOOSE j \in DOMAIN query : query[j] = table
    IN  SubSeq(query, i + 1, Len(query))

RECURSIVE TagAt(_, _)
\* the db tag of the field of typ that path leads to
TagAt(typ, path) ==
    IF Len(path) = 1 THEN typ[path[1] + 1].Tag
    ELSE TagAt(typ[path[1] + 1].Fields, Tail(path))

\* the leaf fields of typ that declare a column
TaggedLeaves(typ) == {p \in LeafPaths(typ, <<>>) : TagAt(typ, p) \notin {"", "-"}}

\* the column names the db tags of typ declare
Declared(typ) == {TagAt(typ, p) : p \in TaggedLeaves(typ)}

\* no two fields of typ declare the same column
DistinctTags(typ) ==
    \A p, q \in TaggedLeaves(typ) : p # q => TagAt(typ, p) # TagAt(typ, q)

RECURSIVE LeafSeq(_, _, _)
\* the paths of the first n fields of typ and of what they embed, in
\* depth-first declaration order
LeafSeq(typ, parentPath, n) ==
    IF n = 0 THEN <<>>
    ELSE LeafSeq(typ, parentPath, n - 1)
         \o (IF typ[n].Anonymous
             THEN LeafSeq(typ[n].Fields, Append(parentPath, n - 1), Len(typ[n].Fields))
             ELSE <<Append(parentPath, n - 1)>>)

\* the field declaring column c that a depth-first walk of typ visits last
LastDeclaring(typ, c) ==
    LET seq == LeafSeq(typ, <<>>, Len(typ))
        at == {i \in DOMAIN seq : TagAt(typ, seq[i]) = c}
    IN  seq[CHOOSE i \in at : \A j \in at : j <= i]

\* the versions registered with Migrator m
Registered(m) == {m.migrations[i] : i \in DOMAIN m.migrations}

\* the members of a set of versions, lowest first
Ascending(S) ==
    CHOOSE seq \in [1..Cardinality(S) -> S] :
        \A i, j \in 1..Cardinality(S) : i < j => seq[i] < seq[j]

\* seq without its i-th element
Remove(seq, i) == SubSeq(seq, 1, i - 1) \o SubSeq(seq, i + 1, Len(seq))

\* scanStruct got as far as rows.Scan
Scanned == rout # NoOutput /\ KindOf(rin.name) = "struct" /\ ~rin.colsErr

\* the clauses buildSelectQuery appends after the WHERE clause of builder bd
ExpectedTail(bd) ==
    (IF bd.orderBy = <<>> THEN <<>>
     ELSE <<" ORDER BY ">>
          \o Join([i \in DOMAIN bd.orderBy |->
                     <<bd.orderBy[i].Column,
                       IF bd.orderBy[i].Desc THEN " DESC" ELSE " ASC">>], ", "))
    \o (IF bd.limit = <<>> THEN <<>> ELSE <<" LIMIT ", ToString(bd.limit[1])>>)
    \o (IF bd.offset = <<>> THEN <<>> ELSE <<" OFFSET ", ToString(bd.offset[1])>>)

\* the k-th literal of Go type t, in an order fixed once
LiteralNo(t, k) ==
    LET first == CHOOSE x \in Literals(t) : TRUE
    IN  IF k = 1 THEN first ELSE CHOOSE x \in Literals(t) : x # first

\* an interface{} value with every operand replaced by the k-th literal of
\* its type; a slice keeps its length
RevalueValue(value, k) ==
    IF value.t = "nil" THEN value
    ELSE IF value.elems = <<>> /\ value.s # ""
    THEN [value EXCEPT !.s = LiteralNo(value.t, k)]
    ELSE [value EXCEPT !.elems = [i \in DOMAIN value.elems |->
                                   [value.elems[i] EXCEPT
                                       !.s = LiteralNo(value.elems[i].t, k)]]]

RECURSIVE Revalue(_, _)
\* a condition list with the same fields, operators and group structure and
\* every operand replaced
Revalue(conds, k) ==
    [i \in DOMAIN conds |->
        IF conds[i].type = "ConditionGroup"
        THEN [conds[i] EXCEPT !.Conditions = Revalue(conds[i].Conditions, k)]
        ELSE [conds[i] EXCEPT !.Value = RevalueValue(conds[i].Value, k)]]

-----------------------------------------------------------------------------
(* Specification of WithTx: calls made one after another on one database;   *)
(* a panic of fn is recovered by the caller and the program goes on.        *)

InitTx ==
    /\ b = NewBuilder("postgres", "users")
    /\ last = Idle
    /\ rin = NoRender
    /\ rout = NoOutput
    /\ pc = <<>>
    /\ loaded = <<>>
    /\ snap = <<>>
    /\ opt = OptIdle
    /\ tx = TxIdle
    /\ mig = MigIdle
    /\ gen = GenIdle

\* err := db.WithTx(ctx, fn)
CallWithTx(o) ==
    /\ tx.rows + o.writes <= MaxStored
    /\ tx.open < MaxOpen
    /\ LET r == WithTx(tx.rows, o)
       IN  tx' = [rows |-> r.rows,
                  open |-> tx.open + r.begun - r.commits - r.rollbacks,
                  op |-> "WithTx", before |-> tx.rows, o |-> o, ret |-> r]
    /\ UNCHANGED <<b, last, rin, rout, pc, loaded, snap, opt, mig, gen>>

NextTx == \E o \in TxOutcomes : CallWithTx(o)

SpecTx == InitTx /\ [][NextTx]_vars

-----------------------------------------------------------------------------
(* Specification of the Migrator: migrations are registered, Up and Down    *)
(* are called one after another, under either build of the range loop.      *)

InitMig ==
    /\ b = NewBuilder("postgres", "users")
    /\ last = Idle
    /\ rin = NoRender
    /\ rout = NoOutput
    /\ pc = <<>>
    /\ loaded = <<>>
    /\ snap = <<>>
    /\ opt = OptIdle
    /\ tx = TxIdle
    /\ \E lv \in LoopVars : mig = [MigIdle EXCEPT !.loopvar = lv]
    /\ gen = GenIdle

\* m.Register(Migration{Version: version, ...}), the version not registered yet
Register(version) ==
    /\ \A i \in DOMAIN mig.migrations : mig.migrations[i] # version
    /\ mig' = [mig EXCEPT !.migrations = Append(@, version), !.op = "Register",
                          !.fail = NoFailure, !.err = "",
                          !.ran = <<>>]
    /\ UNCHANGED <<b, last, rin, rout, pc, loaded, snap, opt, tx, gen>>

\* err := m.Up(ctx)
CallUp(fail) ==
    /\ fail.kind # "noDown"
    /\ mig' = Up(mig, fail)
    /\ UNCHANGED <<b, last, rin, rout, pc, loaded, snap, opt, tx, gen>>

\* err := m.Down(ctx)
CallDown(fail) ==
    /\ fail.kind # "createTable"
    /\ mig' = Down(mig, fail)
    /\ UNCHANGED <<b, last, rin, rout, pc, loaded, snap, opt, tx, gen>>

NextMig ==
    \/ \E version \in Versions : Register(version)
    \/ \E fail \in MigFailures : CallUp(fail)
    \/ \E fail \in MigFailures : CallDown(fail)

SpecMig == InitMig /\ [][NextMig]_vars

-----------------------------------------------------------------------------
(* Specification of the generator: GenerateFromPath is called on files and  *)
(* on the directory, one call after another, over one disk.                 *)

InitGen ==
    /\ b = NewBuilder("postgres", "users")
    /\ last = Idle
    /\ rin = NoRender
    /\ rout = NoOutput
    /\ pc = <<>>
    /\ loaded = <<>>
    /\ snap = <<>>
    /\ opt = OptIdle
    /\ tx = TxIdle
    /\ mig = MigIdle
    /\ gen = GenIdle

\* err := codegen.NewGenerator(config).GenerateFromPath(path)
CallGenerateFromPath(in) ==
    /\ LET r == GenerateFromPath(gen.disk, in[2], in[1], in[3])
       IN  gen' = [disk |-> r.disk, op |-> "GenerateFromPath", path |-> in[1],
                   outputDir |-> in[2], err |-> r.err]
    /\ UNCHANGED <<b, last, rin, rout, pc, loaded, snap, opt, tx, mig>>

NextGen == \E in \in GenInputs : CallGenerateFromPath(in)

SpecGen == InitGen /\ [][NextGen]_vars

-----------------------------------------------------------------------------
(* Properties *)

\* C1: a mutator call (Where, OrderByAsc, OrderByDesc, Limit, Offset, Select)
\* on builder B leaves what B renders unchanged: the SELECT and COUNT text and
\* arguments of the receiver are the same after the call as before it.
C1_SnapshotIsolation ==
    [][(last = Idle /\ last' = Idle) =>
         /\ buildSelectQuery(b') = buildSelectQuery(b)
         /\ buildCountQuery(b') = buildCountQuery(b)]_vars

\* C2: when two threads call Where on the same base concurrently, the builder
\* each thread gets back holds base's conditions followed by its own
\* condition, and base's conditions are what they were.  Where returns its
\* receiver, so the builder a thread gets back and base are both b.
C2_ConcurrentDerivation ==
    \A t \in Threads :
        pc[t].at = "ret" =>
            LET returned == b
                base == b
            IN  /\ returned.conditions = Append(snap, pc[t].cond)
                /\ base.conditions = snap

\* C3: in the text sent by a terminal call of a builder with the numbered
\* dialect, the placeholders are $1, $2, ..., $n in that order, n is the
\* number of arguments, every leaf shows as many placeholders as it binds
\* operands, and the arguments are the leaves' operands in depth-first,
\* left-to-right order.
C3_PlaceholderOrder ==
    (Terminal /\ b.dialect = "postgres") =>
        LET q == last.sent[1]
            leaves == Leaves(b.conditions)
        IN  /\ PlaceholdersIn(q.query) = [i \in 1..Len(q.args) |-> Dollar(i)]
            /\ q.args = LeafOperands("postgres", leaves)
            /\ \A i \in DOMAIN leaves :
                 LET r == buildCondition("postgres", leaves[i], 1)
                 IN  Len(PlaceholdersIn(r.sql)) = Len(r.args)

C3_Witness ==
    /\ last.op = "Find"
    /\ b.dialect = "postgres"
    /\ b.conditions = <<NestedGroup, And3>>
    /\ Len(last.sent[1].args) = 7

\* C4: Where(Age.Gt(18)).Where(IsActive.Eq(true)) on table users with the
\* PostgreSQL dialect sends exactly
\*   SELECT * FROM "users" WHERE age > $1 AND is_active = $2
\* with the arguments [18, true].
C4_Builder ==
    [NewBuilder("postgres", "users") EXCEPT !.conditions = <<AgeGt18, IsActiveEqTrue>>]

C4_NumberedExample ==
    (b = C4_Builder /\ last.op = "Find") =>
        /\ Str(last.sent[1].query)
             = "SELECT * FROM \"users\" WHERE age > $1 AND is_active = $2"
        /\ last.sent[1].args = <<Scalar("int", "18"), Scalar("bool", "true")>>

C4_Witness == b = C4_Builder /\ last.op = "Find" /\ last.err = ""

\* C5: what a builder with a uniform-positional dialect (MySQL, SQLite) sends
\* has the same arguments, in the same order, as the same builder renders
\* with the numbered dialect, shows "?" exactly where the numbered text
\* shows a $i, and so shows one "?" per argument.
C5_DialectIndependence ==
    (Terminal /\ b.dialect \in {"mysql", "sqlite"}) =>
        LET u == last.sent[1]
            numbered == [b EXCEPT !.dialect = "postgres"]
            n == IF last.op = "Count" THEN buildCountQuery(numbered)
                 ELSE buildSelectQuery(numbered)
        IN  /\ u.args = n.args
            /\ Len(u.query) = Len(n.query)
            /\ \A j \in DOMAIN n.query :
                 (\E k \in 1..Len(n.args) : n.query[j] = Dollar(k))
                     <=> (u.query[j] = "?")
            /\ Cardinality({j \in DOMAIN u.query : u.query[j] = "?"}) = Len(u.args)

C5_Witness ==
    /\ last.op = "Find"
    /\ b.dialect = "mysql"
    /\ b.conditions = <<And3, NestedGroup>>
    /\ Len(last.sent[1].args) = 7

\* C6: f.Between(lo, hi) of every descriptor type that has the method
\* renders, at position k of the numbered dialect, as
\* col BETWEEN $k AND $(k+1), moves the position to k + 2 and binds [lo, hi].
C6_BetweenRendering ==
    (rout # NoOutput /\ rin.cond.Operator = OpBetween /\ rin.d = "postgres") =>
        /\ rout.sql = <<ColumnOf(rin.ft), " BETWEEN ", Dollar(rin.argIndex),
                        " AND ", Dollar(rin.argIndex + 1)>>
        /\ rout.argIndex = rin.argIndex + 2
        /\ rout.args = rin.cond.Value.elems

\* C7: f.In(v1..vn) and f.NotIn(v1..vn) of every descriptor type render, at
\* position k of the numbered dialect, as col IN ($k, ..., $(k+n-1)) and
\* col NOT IN (...), move the position to k + n and bind v1..vn in order.
C7_InRendering ==
    (rout # NoOutput /\ rin.cond.Operator \in {OpIn, OpNotIn} /\ rin.d = "postgres") =>
        LET vals == rin.cond.Value.elems
            n == Len(vals)
            kw == IF rin.cond.Operator = OpIn THEN "IN" ELSE "NOT IN"
        IN  /\ rout.sql = <<ColumnOf(rin.ft), " ", kw, " (">>
                          \o Join([i \in 1..n |-> <<Dollar(rin.argIndex + i - 1)>>], ", ")
                          \o <<")">>
            /\ rout.args = vals
            /\ rout.argIndex = rin.argIndex + n

\* C8: a terminal call of a builder holding a group sends, after WHERE, the
\* top-level elements joined by AND, every group in parentheses with its
\* children joined by its own keyword in the order given, nested groups
\* included, all numbered by one counter; the arguments are the children's
\* arguments in left-to-right order.  Where(And(a, b, c)) alone is
\* (a_sql AND b_sql AND c_sql).
C8_GroupRendering ==
    (Terminal /\ \E i \in DOMAIN b.conditions : b.conditions[i].type = "ConditionGroup") =>
        LET q == last.sent[1]
        IN  /\ IsInfix(<<" WHERE ">> \o ExpectedText(b.dialect, b.conditions, " AND ", 1),
                       q.query)
            /\ q.args = LeafOperands(b.dialect, Leaves(b.conditions))
            /\ (b = [NewBuilder("postgres", "users") EXCEPT !.conditions = <<And3>>]
                /\ last.op = "Find") =>
                 Str(q.query) = "SELECT * FROM \"users\" WHERE "
                     \o "(age > $1 AND age BETWEEN $2 AND $3 AND is_active = $4)"

C8_Witness ==
    /\ last.op = "Count"
    /\ b.dialect = "postgres"
    /\ b.conditions = <<And3, NestedGroup>>
    /\ IsInfix(<<"(", "name", " ", "IN", " (", "$5", ", ", "$6", ")", " OR ", "(",
                 "deleted_at", " IS NULL", " AND ", "age", " ", ">", " ", "$7",
                 ")", ")">>, last.sent[1].query)

\* C9: a builder holding an empty group, at top level or nested, sends no
\* text with an empty pair of parentheses, a WHERE with nothing after it, or
\* an AND / OR with a missing side.
C9_EmptyGroupNoOp ==
    (Terminal /\ HasEmptyGroup(b.conditions)) =>
        LET q == last.sent[1].query
            Keyword(f) == f \in {" AND ", " OR ", " WHERE "}
        IN  /\ ~IsInfix(<<"(", ")">>, q)
            /\ ~Keyword(q[Len(q)])
            /\ \A j \in 1..(Len(q) - 1) :
                 Keyword(q[j]) => (q[j + 1] # ")" /\ ~Keyword(q[j + 1]))

\* C10: a terminal call of a builder holding a Between that does not resolve
\* to exactly two operands fails with an error: nothing is sent to the
\* Executor and no result is returned.
C10_MalformedBetweenFails ==
    (Terminal /\ HasMalformedBetween(b.conditions)) =>
        /\ last.sent = <<>>
        /\ last.err # ""
        /\ last.results = <<>>
        /\ last.value = 0

\* C11: First over a query that returns zero rows returns the error
\* "no rows found" and the zero value; over a query that returns at least
\* one row it returns the first row and no error.
C11_FirstNotFound ==
    (last.op = "First" /\ last.outcome.kind = "ok") =>
        IF last.outcome.nrows = 0
        THEN last.err = "no rows found" /\ last.value = 0
        ELSE last.err = "" /\ last.value = 1

C11_Witness ==
    /\ last.op = "First"
    /\ last.outcome = [kind |-> "ok", nrows |-> 0]
    /\ last.err = "no rows found"
    /\ b.conditions # <<>>

\* C13: Find over a query that returns zero rows returns, with no error, an
\* empty sequence that is not nil.
C13_EmptyNotNil ==
    (last.op = "Find" /\ last.outcome = [kind |-> "ok", nrows |-> 0]) =>
        /\ last.err = ""
        /\ last.results = <<>>
        /\ ~last.isNil

\* C19: when the Executor call fails, a row fails to scan, or the iteration
\* reports an error, Find returns an error naming the stage and a nil
\* result: no row scanned before the failure is returned.
C19_NoPartialResults ==
    (last.op = "Find" /\ last.outcome.kind # "ok") =>
        /\ last.results = <<>>
        /\ last.isNil
        /\ last.err = (CASE last.outcome.kind = "execErr" -> "failed to execute query"
                          [] last.outcome.kind = "scanErr" -> "failed to scan row"
                          [] last.outcome.kind = "rowsErr" -> "rows iteration error")

C19_Witness ==
    /\ last.op = "Find"
    /\ last.outcome = [kind |-> "scanErr", nrows |-> 1]
    /\ last.results = <<>>

\* C20: every terminal call has invoked the Logger exactly once when it
\* returns: LogQuery or LogError, never both and never neither.
C20_LoggerOnce ==
    Terminal => last.logQuery + last.logError = 1

\* C12: what Count sends is SELECT COUNT(*) FROM <quoted table> followed by
\* the WHERE text Find renders for the same builder, with the arguments Find
\* binds; with no ORDER BY, LIMIT or OFFSET the two texts are the same from
\* the table name on.
C12_CountSameWhere ==
    (last.op = "Count") =>
        LET c == last.sent[1]
            f == buildSelectQuery(b)
            wc == AfterTable(b.dialect, c.query)
            wf == AfterTable(b.dialect, f.query)
        IN  /\ SubSeq(c.query, 1, 2)
                 = <<"SELECT COUNT(*) FROM ", QuoteIdentifier(b.dialect, "users")>>
            /\ c.args = f.args
            /\ Len(wc) <= Len(wf)
            /\ SubSeq(wf, 1, Len(wc)) = wc
            /\ Len(wf) > Len(wc) =>
                 wf[Len(wc) + 1] \in {" ORDER BY ", " LIMIT ", " OFFSET "}
            /\ (b.orderBy = <<>> /\ b.limit = <<>> /\ b.offset = <<>>) => wc = wf

C12_Witness ==
    /\ last.op = "Count"
    /\ last.err = ""
    /\ b.conditions = <<NestedGroup, AgeGt18>>
    /\ b.limit = <<>>
    /\ b.offset = <<>>
    /\ Len(last.sent[1].args) = 4

\* C18: Not(c) has c's Field and Value and c's operator swapped by
\* Eq <-> Ne, IsNull <-> IsNotNull, In <-> NotIn, left as it is otherwise; c
\* is not modified; Not(Not(c)) = c.
C18_NotInvolution ==
    (rout # NoOutput) =>
        LET c == rin.cond
            swapped == CASE c.Operator = OpEq -> OpNe
                         [] c.Operator = OpNe -> OpEq
                         [] c.Operator = OpIsNull -> OpIsNotNull
                         [] c.Operator = OpIsNotNull -> OpIsNull
                         [] c.Operator = OpIn -> OpNotIn
                         [] c.Operator = OpNotIn -> OpIn
                         [] OTHER -> c.Operator
        IN  /\ rout.once.Field = c.Field
            /\ rout.once.Value = c.Value
            /\ rout.once.type = "Condition"
            /\ rout.once.Operator = swapped
            /\ rout.arg = c
            /\ rout.twice = c

C18_Witness ==
    /\ rout # NoOutput
    /\ rin.cond.Operator = OpNotIn
    /\ rout.once.Operator = OpIn
    /\ Len(rin.cond.Value.elems) = 2

\* C14: for a destination type whose fields, embedded to any depth, declare
\* distinct columns, every column a db tag declares is bound to the leaf
\* field that declares it (never to an embedded struct), different columns
\* to different fields; and after a scan without error every field that
\* declares a column of the row holds a value of that column.
C14_EmbeddedScan ==
    (Scanned /\ DistinctTags(TypeOf(rin.name))) =>
        LET typ == TypeOf(rin.name)
            cols == rin.columns
            sv == rout.scanValues
        IN  /\ \A i \in DOMAIN cols :
                 cols[i] \in Declared(typ) =>
                     /\ sv[i].field
                     /\ sv[i].path \in LeafPaths(typ, <<>>)
                     /\ TagAt(typ, sv[i].path) = cols[i]
            /\ \A i, j \in DOMAIN cols :
                 (cols[i] \in Declared(typ) /\ cols[j] \in Declared(typ)
                  /\ cols[i] # cols[j]) => sv[i].path # sv[j].path
            /\ rout.err = "" =>
                 \A p \in TaggedLeaves(typ) :
                     LET hits == {i \in DOMAIN cols : cols[i] = TagAt(typ, p)}
                     IN  hits # {} => rout.dest[p] \in {rin.row[i].val : i \in hits}

C14_Witness ==
    /\ rout # NoOutput
    /\ rin.name = "Deep"
    /\ rin.columns = <<"id", "created_at", "name">>
    /\ rout.err = ""
    /\ rout.dest[<<1, 0, 0>>] = 1
    /\ rout.dest[<<1, 0, 1>>] = 2
    /\ rout.dest[<<0>>] = 3

\* C15: a column that no db tag of the destination declares is bound to a
\* placeholder, and the scan ends as it does on the row without that
\* column: the same error or none, the same value in every field, the
\* same targets for the other columns.
C15_UnknownColumnDiscarded ==
    Scanned =>
        \A i \in DOMAIN rin.columns :
            rin.columns[i] \notin Declared(TypeOf(rin.name)) =>
                LET without == scanStruct(rin.name, Remove(rin.columns, i),
                                          Remove(rin.row, i), FALSE)
                IN  /\ ~rout.scanValues[i].field
                    /\ rout.dest = without.dest
                    /\ rout.err = without.err
                    /\ Remove(rout.scanValues, i) = without.scanValues

C15_Witness ==
    /\ rout # NoOutput
    /\ rin.name = "User"
    /\ rin.columns = <<"extra", "name", "id">>
    /\ ~rin.row[1].conv
    /\ rout.err = ""
    /\ rout.dest[<<1>>] = 2
    /\ rout.dest[<<0, 0>>] = 3

\* C16: Value() of an absent Optional is nil and MarshalJSON() of it is
\* null; of a present one they are the value and its JSON encoding.
\* Decoding the encoding of None[int]() or of Some(v) into a newly declared
\* Optional, by Scan or by UnmarshalJSON, gives without error an Optional
\* equal to the one encoded.
C16_OptionalRoundTrip ==
    /\ opt.op = "Value" =>
         opt.wire = (IF opt.src.valid THEN DriverInt("int", opt.src.value)
                     ELSE DriverNil)
    /\ opt.op = "MarshalJSON" =>
         opt.wire = (IF opt.src.valid THEN JSONText(ToString(opt.src.value))
                     ELSE JSONText("null"))
    /\ (opt.op \in {"Scan", "UnmarshalJSON"} /\ opt.arg = opt.wire
        /\ opt.before = None
        /\ opt.src \in {None} \cup {Some(n) : n \in OptInts}) =>
         (opt.o = opt.src /\ ~opt.err)

C16_Witness ==
    /\ opt.op = "UnmarshalJSON"
    /\ opt.arg = opt.wire
    /\ opt.before = None
    /\ opt.src = Some(5)
    /\ opt.o = Some(5)

\* C17: GetOrZero returns the value of a present Optional and the zero value
\* of an absent one, whatever calls were made on the Optional before.
C17_GetOrZero ==
    opt.op = "GetOrZero" =>
        opt.got = (IF opt.o.valid THEN opt.o.value ELSE 0)

\* C21: the text Find and First send ends with ORDER BY, LIMIT, OFFSET in
\* that order after the WHERE clause, whatever order the calls were made in;
\* ORDER BY lists the columns in the order of the OrderBy calls; LIMIT and
\* OFFSET are integer literals, bind no argument and take no placeholder.
C21_ClauseOrder ==
    (last.op \in {"Find", "First"}) =>
        LET q == last.sent[1]
            tail == ExpectedTail(b)
            head == SubSeq(q.query, 1, Len(q.query) - Len(tail))
            where == buildWhereClause(b.dialect, b.conditions)
        IN  /\ Len(tail) <= Len(q.query)
            /\ SubSeq(q.query, Len(q.query) - Len(tail) + 1, Len(q.query)) = tail
            /\ \A j \in DOMAIN head : head[j] \notin {" ORDER BY ", " LIMIT ", " OFFSET "}
            /\ b.conditions # <<>> =>
                 SubSeq(head, Len(head) - Len(where.sql), Len(head))
                     = <<" WHERE ">> \o where.sql
            /\ q.args = where.args
            /\ b.dialect = "postgres" =>
                 Len(PlaceholdersIn(q.query)) = Len(where.args)

C21_Witness ==
    /\ last.op = "Find"
    /\ b.conditions = <<AgeGt18>>
    /\ b.orderBy = <<OrderBy("age", TRUE)>>
    /\ b.limit = <<10>>
    /\ b.offset = <<20>>
    /\ Str(last.sent[1].query)
         = "SELECT * FROM \"users\" WHERE age > $1 ORDER BY age DESC LIMIT 10 OFFSET 20"

\* C26: First leaves the builder it is called on as it was: after
\* b.First(ctx) returns, b renders the SELECT text and arguments it rendered
\* before the call.
C26_FirstLeavesBuilder ==
    [][last'.op = "First" => buildSelectQuery(b') = buildSelectQuery(b)]_vars

\* C28: a builder whose conditions differ from b's in the operand values
\* only sends the same text as b, in calls of every kind.
C28_ValuesNotInText ==
    Terminal =>
        \A k \in 1..2 :
            LET other == [b EXCEPT !.conditions = Revalue(b.conditions, k)]
                q == IF last.op = "Count" THEN buildCountQuery(other)
                     ELSE buildSelectQuery(other)
            IN  q.query = last.sent[1].query

C28_Witness ==
    /\ last.op = "Find"
    /\ b.conditions = <<NestedGroup, ScoreBetween>>
    /\ buildSelectQuery([b EXCEPT !.conditions = Revalue(b.conditions, 1)]).args
         # last.sent[1].args

\* C29: a Scan that returns an error leaves the Optional as it was: the
\* presence flag and the held value are those before the call.
C29_FailedScanUnchanged ==
    (opt.op = "Scan" /\ opt.err) => opt.o = opt.before

\* C27: the column map of a type is a function of the type alone: it holds
\* the declared columns, each mapped to the field declaring it that a
\* depth-first walk in declaration order visits last, whatever the order in
\* which the range over an embedded struct's map visits its keys.
C27_DeterministicCollision ==
    (KindOf(rin.name) = "struct") =>
        LET typ == TypeOf(rin.name)
            fieldMap == buildFieldMap(typ)
        IN  /\ DOMAIN fieldMap = Declared(typ)
            /\ \A c \in Declared(typ) : fieldMap[c] = LastDeclaring(typ, c)
            /\ Scanned =>
                 \A i \in DOMAIN rin.columns :
                     rin.columns[i] \in Declared(typ) =>
                         rout.scanValues[i].path = LastDeclaring(typ, rin.columns[i])

C27_Witness ==
    /\ rout # NoOutput
    /\ rin.name = "ClashFirst"
    /\ rin.order = <<"email", "name", "created_at", "id">>
    /\ rin.columns = <<"id", "created_at">>
    /\ rout.err = ""
    /\ ~DistinctTags(TypeOf(rin.name))
    /\ rout.scanValues[1].path = <<1, 0>>
    /\ rout.dest[<<1, 0>>] = 1
    /\ rout.dest[<<0>>] = 0

\* C22: a WithTx call whose fn returned an error issued a rollback, returned
\* an error and left the row count as it was; one whose fn returned nil
\* issued a commit, and when it returned nil the rows fn wrote are there;
\* every transaction a call began had exactly one commit or rollback issued.
C22_TxAtomic ==
    (tx.op = "WithTx") =>
        /\ (tx.o.fn = "error") =>
              tx.ret.rollbacks = 1 /\ tx.ret.err # "" /\ tx.rows = tx.before
        /\ (tx.o.fn = "nil") =>
              /\ tx.ret.commits = 1
              /\ tx.ret.err = "" => tx.rows = tx.before + tx.o.writes
        /\ tx.ret.commits + tx.ret.rollbacks = tx.ret.begun

\* C23: migrations are atomic: in every state a version is recorded in the
\* control table exactly when what its Up function does is present, and
\* nothing is ever left partly done.
C23_MigrationAtomic ==
    \A v \in Versions :
        /\ mig.effects[v] \in {"none", "all"}
        /\ (v \in mig.applied) <=> (mig.effects[v] = "all")

C25_DownRevertsLast ==
    [][(mig'.op = "Down") =>
          LET cand == Registered(mig) \cap mig.applied
              top == CHOOSE v \in cand : \A w \in cand : w <= v
          IN  /\ (mig.applied = {} /\ mig'.fail.kind = "none") =>
                    mig'.err = "" /\ mig'.ran = <<>>
              /\ (cand # {} /\ mig'.err = "") =>
                    /\ mig'.ran = <<top>>
                    /\ mig'.applied = mig.applied \ {top}
      ]_vars

\* C30: after GenerateFromPath has returned nil on a source file, the
\* generated files on disk hold the field definitions of every struct of
\* that file that has a db-tagged field.
C30_NoStructLost ==
    (gen.op = "GenerateFromPath" /\ gen.err = "") =>
        \A i \in DOMAIN SourceTree :
            gen.path = <<SourceTree[i].dir, "/", SourceTree[i].base, ".go">> =>
                \A k \in DOMAIN extractStructs(SourceTree[i]) :
                    \E p \in DOMAIN gen.disk :
                        /\ gen.disk[p].Name = extractStructs(SourceTree[i])[k].Name
                        /\ gen.disk[p].Fields = extractStructs(SourceTree[i])[k].Fields

====
